---- MODULE Spec2Model ----
(***************************************************************************)
(* Model of the quizr serverless handlers: the get-or-create handler of    *)
(* the daily question (get-trivia-question, persistence version) and the   *)
(* two completion handlers (mark-completed and mark-question-completed)    *)
(* over the tables daily_questions and user_question_attempts of the       *)
(* schema, and the in-memory RateLimiter of the rate-limited fetch handler.*)
(* The app side is the hook useTriviaQuestion with getDeviceId over         *)
(* AsyncStorage, calling the handlers, and the component QuestionGame.     *)
(*                                                                         *)
(* Strings whose content the code transforms are sequences of one-character*)
(* strings; a nullable value of the code is a set with zero or one element.*)
(***************************************************************************)
EXTENDS Integers, Sequences, FiniteSets, TLC

VARIABLES
    clock,                    \* the UTC calendar day new Date() falls on
    daily_questions,          \* table daily_questions: a set of rows
    user_question_attempts,   \* table user_question_attempts: a set of rows
    req,                      \* the handler invocations, per slot: locals, response, and as
                              \* history the device that sent the request
    completedOk,              \* history: (device_id, question_date) keys a completion answered 200 for
    store,                    \* RateLimiter.store: clientId -> set holding its record, if any
    lastCleanup,              \* RateLimiter.lastCleanup
    now,                      \* Date.now() of the rate limiter's process
    maxRequests,              \* RateLimiter.maxRequests  (constructor argument)
    maxStoreSize,             \* RateLimiter.maxStoreSize (constructor argument)
    lastCall,                 \* the last isRateLimited call: its client, time, result and the store before it
    sanitizer,                \* calls of sanitizeText: the argument and result of the last one, their number
    app,                      \* the app on one installation: AsyncStorage, the state of
                              \* useTriviaQuestion and its running invocations
    game                      \* the state and props of one QuestionGame component

dbVars == <<clock, daily_questions, user_question_attempts, req, completedOk>>
rlVars == <<store, lastCleanup, now, maxRequests, maxStoreSize, lastCall>>
appVars == <<app, game>>
vars == <<clock, daily_questions, user_question_attempts, req, completedOk,
          store, lastCleanup, now, maxRequests, maxStoreSize, lastCall, sanitizer, app, game>>

----------------------------------------------------------------------------
(* Bounds of the model *)

\* handler invocations that can be in flight at once
NumSlots == 2
\* calendar days the clock runs through
MaxDay == 2

\* fragments an argument of sanitizeText is put together from
MaxFragments == 3
\* calls of sanitizeText in a row, each on the result of the one before
MaxPasses == 3

\* client identifiers the rate limiter sees
NumClients == 2
\* the largest Date.now() the rate limiter's clock reaches
MaxTime == 3
\* RateLimiter.windowMs, in clock units
WindowMs == 1
\* RateLimiter.cleanupIntervalMs, in clock units
CleanupIntervalMs == 2
\* the largest maxRequests a RateLimiter is constructed with
MaxRequestsCfg == 2
\* the largest maxStoreSize a RateLimiter is constructed with
MaxStoreCfg == 2

\* clients of the limiter in the eviction specification
NumEvictClients == 5
\* capacity of the limiter's store in the eviction specification
EvictStoreSize == 4

\* clients of the limiter, and the last instant, in the specification of late calls
NumLateClients == 3
LateTime == 4

\* the values generateDeviceId can return
MaxGenerated == 2

\* handleFlipPage calls that wait for onMarkCompleted at one time
MaxPending == 2

Slots == 1..NumSlots
Days == 1..MaxDay
ClientIds == 1..NumClients

----------------------------------------------------------------------------
(* Strings and the entity clean-up of the get-or-create handler *)

\* the least member of a non-empty set of positions
Least(positions) == CHOOSE i \in positions : \A k \in positions : i <= k

RECURSIVE ReplaceAll(_, _, _)
\* String.prototype.replace with a global literal pattern: left to right, non-overlapping
ReplaceAll(s, pat, rep) ==
    LET at == {i \in 1..(Len(s) - Len(pat) + 1) : SubSeq(s, i, i + Len(pat) - 1) = pat} IN
    IF at = {} THEN s
    ELSE SubSeq(s, 1, Least(at) - 1) \o rep
            \o ReplaceAll(SubSeq(s, Least(at) + Len(pat), Len(s)), pat, rep)

cleanText(text) ==
    LET t1 == ReplaceAll(text, <<"&", "q", "u", "o", "t", ";">>, <<"\"">>)
        t2 == ReplaceAll(t1, <<"&", "#", "0", "3", "9", ";">>, <<"'">>)
        t3 == ReplaceAll(t2, <<"&", "a", "m", "p", ";">>, <<"&">>)
        t4 == ReplaceAll(t3, <<"&", "l", "t", ";">>, <<"<">>)
        t5 == ReplaceAll(t4, <<"&", "g", "t", ";">>, <<">">>)
    IN  ReplaceAll(t5, <<"&", "n", "b", "s", "p", ";">>, <<" ">>)

MapClean(answers) == [i \in 1..Len(answers) |-> cleanText(answers[i])]

----------------------------------------------------------------------------
(* sanitizeText of the rate-limited handler: its regular expressions, one by one *)

Letters == <<"a", "b", "c", "d", "e", "f", "g", "h", "i", "j", "k", "l", "m",
             "n", "o", "p", "q", "r", "s", "t", "u", "v", "w", "x", "y", "z">>
Capitals == <<"A", "B", "C", "D", "E", "F", "G", "H", "I", "J", "K", "L", "M",
              "N", "O", "P", "Q", "R", "S", "T", "U", "V", "W", "X", "Y", "Z">>
Digits == {"0", "1", "2", "3", "4", "5", "6", "7", "8", "9"}

\* the i flag: characters are compared in lower case
Lower(c) ==
    IF \E i \in 1..Len(Capitals) : Capitals[i] = c
    THEN Letters[CHOOSE i \in 1..Len(Capitals) : Capitals[i] = c]
    ELSE c
LowerSeq(s) == [i \in 1..Len(s) |-> Lower(s[i])]

\* \w and \s
WordChars == {Letters[i] : i \in 1..Len(Letters)} \cup {Capitals[i] : i \in 1..Len(Capitals)}
                \cup Digits \cup {"_"}
WhiteSpace == {" ", "\t", "\n", "\r"}
\* the characters . does not match
LineTerminators == {"\n", "\r"}

\* the literal pat (in lower case) is at position i of s, case ignored
MatchesAtCI(s, i, pat) ==
    /\ i + Len(pat) - 1 <= Len(s)
    /\ LowerSeq(SubSeq(s, i, i + Len(pat) - 1)) = pat

RECURSIVE ReplaceAllCI(_, _, _)
\* replace with a global, case-insensitive literal pattern
ReplaceAllCI(s, pat, rep) ==
    LET at == {i \in 1..(Len(s) - Len(pat) + 1) : MatchesAtCI(s, i, pat)} IN
    IF at = {} THEN s
    ELSE SubSeq(s, 1, Least(at) - 1) \o rep
            \o ReplaceAllCI(SubSeq(s, Least(at) + Len(pat), Len(s)), pat, rep)

\* the first position from i on that holds one of chars, 0 if there is none
FirstIndex(s, i, chars) ==
    LET at == {j \in i..Len(s) : s[j] \in chars} IN
    IF at = {} THEN 0 ELSE Least(at)

\* the last position of the longest run of chars that starts at i (i - 1 if it is empty)
RunEnd(s, i, chars) ==
    LET others == {j \in i..Len(s) : s[j] \notin chars} IN
    IF others = {} THEN Len(s) ELSE Least(others) - 1

ScriptOpen == <<"<", "s", "c", "r", "i", "p", "t">>
ScriptClose == <<"<", "/", "s", "c", "r", "i", "p", "t", ">">>

\* /<script[^>]*>.*?<\/script>/i at position i of s: the position its match ends at, 0 if none
ScriptMatchEnd(s, i) ==
    IF ~MatchesAtCI(s, i, ScriptOpen) THEN 0
    ELSE LET gt == FirstIndex(s, i + Len(ScriptOpen), {">"}) IN
         IF gt = 0 THEN 0
         ELSE LET closes == { j \in (gt + 1)..Len(s) :
                                /\ MatchesAtCI(s, j, ScriptClose)
                                /\ \A k \in (gt + 1)..(j - 1) : s[k] \notin LineTerminators }
              IN  IF closes = {} THEN 0
                  ELSE Least(closes) + Len(ScriptClose) - 1

RECURSIVE RemoveScripts(_)
\* .replace(/<script[^>]*>.*?<\/script>/gi, '')
RemoveScripts(s) ==
    LET at == {i \in 1..Len(s) : ScriptMatchEnd(s, i) # 0} IN
    IF at = {} THEN s
    ELSE SubSeq(s, 1, Least(at) - 1)
            \o RemoveScripts(SubSeq(s, ScriptMatchEnd(s, Least(at)) + 1, Len(s)))

RECURSIVE RemoveTags(_)
\* .replace(/<[^>]*>/g, '')
RemoveTags(s) ==
    LET at == {i \in 1..Len(s) : s[i] = "<" /\ FirstIndex(s, i + 1, {">"}) # 0} IN
    IF at = {} THEN s
    ELSE SubSeq(s, 1, Least(at) - 1)
            \o RemoveTags(SubSeq(s, FirstIndex(s, Least(at) + 1, {">"}) + 1, Len(s)))

\* /on\w+\s*=/i at position i of s: the position its match ends at, 0 if none
EventHandlerMatchEnd(s, i) ==
    IF ~MatchesAtCI(s, i, <<"o", "n">>) THEN 0
    ELSE LET w == RunEnd(s, i + 2, WordChars) IN
         IF w < i + 2 THEN 0
         ELSE LET sp == RunEnd(s, w + 1, WhiteSpace) IN
              IF sp + 1 <= Len(s) /\ s[sp + 1] = "=" THEN sp + 1 ELSE 0

RECURSIVE RemoveEventHandlers(_)
\* .replace(/on\w+\s*=/gi, '')
RemoveEventHandlers(s) ==
    LET at == {i \in 1..Len(s) : EventHandlerMatchEnd(s, i) # 0} IN
    IF at = {} THEN s
    ELSE SubSeq(s, 1, Least(at) - 1)
            \o RemoveEventHandlers(SubSeq(s, EventHandlerMatchEnd(s, Least(at)) + 1, Len(s)))

\* the chain of entity replacements, in the order of the code
DecodeEntities(s) ==
    LET e1 == ReplaceAll(s, <<"&", "q", "u", "o", "t", ";">>, <<"\"">>)
        e2 == ReplaceAll(e1, <<"&", "#", "0", "3", "9", ";">>, <<"'">>)
        e3 == ReplaceAll(e2, <<"&", "a", "m", "p", ";">>, <<"&">>)
        e4 == ReplaceAll(e3, <<"&", "l", "t", ";">>, <<"<">>)
        e5 == ReplaceAll(e4, <<"&", "g", "t", ";">>, <<">">>)
        e6 == ReplaceAll(e5, <<"&", "n", "b", "s", "p", ";">>, <<" ">>)
        e7 == ReplaceAll(e6, <<"&", "h", "e", "l", "l", "i", "p", ";">>, <<".", ".", ".">>)
        e8 == ReplaceAll(e7, <<"&", "m", "d", "a", "s", "h", ";">>, <<"-">>)
        e9 == ReplaceAll(e8, <<"&", "n", "d", "a", "s", "h", ";">>, <<"-">>)
        e10 == ReplaceAll(e9, <<"&", "r", "s", "q", "u", "o", ";">>, <<"'">>)
        e11 == ReplaceAll(e10, <<"&", "l", "s", "q", "u", "o", ";">>, <<"'">>)
        e12 == ReplaceAll(e11, <<"&", "r", "d", "q", "u", "o", ";">>, <<"\"">>)
    IN  ReplaceAll(e12, <<"&", "l", "d", "q", "u", "o", ";">>, <<"\"">>)

\* String.prototype.trim
Trim(s) ==
    LET kept == {i \in 1..Len(s) : s[i] \notin WhiteSpace} IN
    IF kept = {} THEN <<>>
    ELSE SubSeq(s, Least(kept), CHOOSE i \in kept : \A k \in kept : i >= k)

RECURSIVE CollapseSpaces(_)
\* .replace(/\s+/g, ' ')
CollapseSpaces(s) ==
    LET at == {i \in 1..Len(s) : s[i] \in WhiteSpace} IN
    IF at = {} THEN s
    ELSE SubSeq(s, 1, Least(at) - 1) \o <<" ">>
            \o CollapseSpaces(SubSeq(s, RunEnd(s, Least(at), WhiteSpace) + 1, Len(s)))

sanitizeText(text) ==
    LET s1 == RemoveScripts(text)
        s2 == RemoveTags(s1)
        s3 == ReplaceAllCI(s2, <<"j", "a", "v", "a", "s", "c", "r", "i", "p", "t", ":">>, <<>>)
        s4 == RemoveEventHandlers(s3)
        s5 == ReplaceAllCI(s4, <<"&", "l", "t", ";", "s", "c", "r", "i", "p", "t">>, <<>>)
        s6 == ReplaceAllCI(s5, <<"&", "l", "t", ";", "/", "s", "c", "r", "i", "p", "t">>, <<>>)
    IN  CollapseSpaces(Trim(DecodeEntities(s6)))

\* pieces of question text as the content source sends them: plain text, entities,
\* the tail of an entity, markup characters
Fragments ==
    { <<"Q">>, <<" ">>, <<"<">>, <<"b", ">">>,
      <<"&", "a", "m", "p", ";">>, <<"&", "l", "t", ";">>, <<"&", "g", "t", ";">>,
      <<"l", "t", ";">>, <<"a", "m", "p", ";">> }

RECURSIVE Flatten(_)
Flatten(pieces) == IF pieces = <<>> THEN <<>> ELSE Head(pieces) \o Flatten(Tail(pieces))

SanitizeInputs == {Flatten(f) : f \in UNION {[1..n -> Fragments] : n \in 0..MaxFragments}}

NoSanitizeCall == [text |-> <<>>, output |-> {}, passes |-> 0]

\* sanitizeText(text), the first call
Sanitize ==
    /\ sanitizer.passes = 0
    /\ sanitizer' = [sanitizer EXCEPT !.output = {sanitizeText(sanitizer.text)}, !.passes = 1]
    /\ UNCHANGED dbVars
    /\ UNCHANGED rlVars
    /\ UNCHANGED appVars

\* sanitizeText on the result of the call before
Resanitize ==
    /\ sanitizer.passes \in 1..(MaxPasses - 1)
    /\ \E t \in sanitizer.output :
          sanitizer' = [text |-> t, output |-> {sanitizeText(t)}, passes |-> sanitizer.passes + 1]
    /\ UNCHANGED dbVars
    /\ UNCHANGED rlVars
    /\ UNCHANGED appVars

InitSanitizer == sanitizer \in {[NoSanitizeCall EXCEPT !.text = t] : t \in SanitizeInputs}

----------------------------------------------------------------------------
(* Requests: the headers a handler reads *)

\* the header sets requests arrive with: a device that sends x-device-id (its address
\* in cf-connecting-ip), one that sends none behind a proxy adding x-forwarded-for,
\* one that sends none of them
HeaderSets ==
    { [device |-> "phoneA", xDeviceId |-> {"device_a"}, xForwardedFor |-> {},
       cfConnectingIp |-> {"10.0.0.1"}],
      [device |-> "phoneB", xDeviceId |-> {}, xForwardedFor |-> {"10.0.0.2"},
       cfConnectingIp |-> {}],
      [device |-> "phoneC", xDeviceId |-> {}, xForwardedFor |-> {}, cfConnectingIp |-> {}] }

NoHeaders == [device |-> "none", xDeviceId |-> {}, xForwardedFor |-> {}, cfConnectingIp |-> {}]

\* a || b on nullable strings
OrElse(a, b) == IF a # {} THEN a ELSE b

\* get-trivia-question and mark-completed: x-device-id || 'anonymous'
DeviceIdOf(h) == CHOOSE d \in OrElse(h.xDeviceId, {"anonymous"}) : TRUE

\* mark-question-completed: x-device-id || x-forwarded-for || 'anonymous'
DeviceIdWithForwardedFor(h) ==
    CHOOSE d \in OrElse(h.xDeviceId, OrElse(h.xForwardedFor, {"anonymous"})) : TRUE

\* the rate-limited handler: x-forwarded-for || cf-connecting-ip || 'unknown'
ClientAddressOf(h) ==
    CHOOSE a \in OrElse(h.xForwardedFor, OrElse(h.cfConnectingIp, {"unknown"})) : TRUE

\* the keys of the limiter's store are opaque strings; the model names them by number
ClientIdOf(h) ==
    CASE ClientAddressOf(h) = "10.0.0.1" -> 1
      [] ClientAddressOf(h) = "10.0.0.2" -> 2
      [] ClientAddressOf(h) = "unknown" -> 3

DeviceIds == {DeviceIdOf(h) : h \in HeaderSets} \cup {DeviceIdWithForwardedFor(h) : h \in HeaderSets}

----------------------------------------------------------------------------
(* The persistence service: PostgREST over the two tables *)

PGRST116 == [code |-> "PGRST116", message |-> "JSON object requested, multiple (or no) rows returned"]
UniqueViolation == [code |-> "23505", message |-> "duplicate key value violates unique constraint"]
\* any other failure of the persistence service (connection, timeout, permission)
DbFailure == [code |-> "08006", message |-> "connection failure"]

\* .single(): exactly one row or the error PGRST116
Single(rows) ==
    IF Cardinality(rows) = 1 THEN [data |-> rows, error |-> {}]
    ELSE [data |-> {}, error |-> {PGRST116}]

Failed == [data |-> {}, error |-> {DbFailure}]

\* a mutant of the query for today's question: it never finds a row
SelectNoQuestion(today) == Single({})

\* from('daily_questions').select('*').eq('question_date', today).single()
SelectQuestion(today) ==
    Single({q \in daily_questions : q.question_date = today})

\* a mutant of the query for the attempt: the day is not part of the key
SelectAttemptOfAnyDay(deviceId, today) ==
    Single({a \in user_question_attempts : a.device_id = deviceId})

\* from('user_question_attempts').select('*').eq('device_id', ..).eq('question_date', ..).single()
SelectAttempt(deviceId, today) ==
    Single({a \in user_question_attempts : a.device_id = deviceId /\ a.question_date = today})

\* id UUID PRIMARY KEY DEFAULT uuid_generate_v4(): a fresh id. Rows are never deleted,
\* so the key of the new row and the count of rows already stored under it name one
NewQuestionId(today) ==
    <<today, Cardinality({q \in daily_questions : q.question_date = today}) + 1>>
NewAttemptId(deviceId, today) ==
    <<deviceId, today,
      Cardinality({a \in user_question_attempts : a.device_id = deviceId /\ a.question_date = today}) + 1>>

\* a mutant of the schema: question_date without UNIQUE
QuestionDateNotUnique(today) == FALSE

\* question_date DATE NOT NULL UNIQUE
QuestionDateTaken(today) == \E q \in daily_questions : q.question_date = today

\* a mutant of the schema: no UNIQUE(device_id, question_date)
AttemptKeyNotUnique(deviceId, today) == FALSE

\* UNIQUE(device_id, question_date)
AttemptKeyTaken(deviceId, today) ==
    \E a \in user_question_attempts : a.device_id = deviceId /\ a.question_date = today

\* the row the question insert of STEP 3 writes
QuestionRow(today, question) ==
    [ id |-> NewQuestionId(today),
      question_date |-> today,
      question_text |-> cleanText(question.question),
      correct_answer |-> cleanText(question.correct_answer),
      incorrect_answers |-> MapClean(question.incorrect_answers) ]

\* the row the attempt insert of STEP 4 writes
AttemptRow(deviceId, today, questionId) ==
    [ id |-> NewAttemptId(deviceId, today),
      device_id |-> deviceId,
      question_date |-> today,
      daily_question_id |-> questionId,
      has_attempted |-> FALSE,
      is_completed |-> FALSE ]

\* a mutant of the question insert: an upsert on question_date
UpsertQuestion(row) ==
    [ table |-> {q \in daily_questions : q.question_date # row.question_date} \cup {row},
      error |-> {} ]

\* a mutant of the question insert: the row is written, yet an error is returned
InsertQuestionThenFail(row) ==
    IF QuestionDateTaken(row.question_date)
    THEN [table |-> daily_questions, error |-> {UniqueViolation}]
    ELSE [table |-> daily_questions \cup {row}, error |-> {DbFailure}]

\* from('daily_questions').insert(row): the table after it and the error, if any
InsertQuestion(row) ==
    IF QuestionDateTaken(row.question_date)
    THEN [table |-> daily_questions, error |-> {UniqueViolation}]
    ELSE [table |-> daily_questions \cup {row}, error |-> {}]

\* a mutant of the attempt insert: an upsert on (device_id, question_date)
UpsertAttempt(row) ==
    [ table |-> {a \in user_question_attempts :
                    ~(a.device_id = row.device_id /\ a.question_date = row.question_date)} \cup {row},
      error |-> {} ]

\* from('user_question_attempts').insert(row): the table after it and the error, if any
InsertAttempt(row) ==
    IF AttemptKeyTaken(row.device_id, row.question_date)
    THEN [table |-> user_question_attempts, error |-> {UniqueViolation}]
    ELSE [table |-> user_question_attempts \cup {row}, error |-> {}]

\* a mutant of the update: is_completed flipped instead of set
ToggledRows(deviceId, today) ==
    { IF a.device_id = deviceId /\ a.question_date = today
      THEN [a EXCEPT !.has_attempted = TRUE, !.is_completed = ~a.is_completed]
      ELSE a : a \in user_question_attempts }

\* a mutant of the update: is_completed set, has_attempted left alone
CompletedOnlyRows(deviceId, today) ==
    { IF a.device_id = deviceId /\ a.question_date = today
      THEN [a EXCEPT !.is_completed = TRUE]
      ELSE a : a \in user_question_attempts }

\* the rows after update({has_attempted: true, is_completed: true}).eq(..).eq(..)
CompletedRows(deviceId, today) ==
    { IF a.device_id = deviceId /\ a.question_date = today
      THEN [a EXCEPT !.has_attempted = TRUE, !.is_completed = TRUE]
      ELSE a : a \in user_question_attempts }

----------------------------------------------------------------------------
(* The external content source *)

\* items the content source can return (response_code 0): two well-formed ones, and
\* one whose correct answer is the empty string
RawQuestions ==
    { [ question |-> <<"&", "q", "u", "o", "t", ";", "Q", "1">>,
        correct_answer |-> <<"a">>,
        incorrect_answers |-> <<<<"b">>, <<"&", "a", "m", "p", ";", "l", "t", ";">>>>,
        category |-> {<<"A", "r", "t">>}, type |-> {<<"m", "u", "l", "t", "i", "p", "l", "e">>},
        difficulty |-> {<<"e", "a", "s", "y">>} ],
      [ question |-> <<"Q", "2">>,
        correct_answer |-> <<"&", "#", "0", "3", "9", ";", "c">>,
        incorrect_answers |-> <<<<"d">>>>,
        category |-> {}, type |-> {}, difficulty |-> {} ],
      [ question |-> <<"Q", "3">>,
        correct_answer |-> <<>>,
        incorrect_answers |-> <<<<"e">>>>,
        category |-> {}, type |-> {}, difficulty |-> {} ] }

\* what fetch(OPEN_TRIVIA_DB_API_URL) and response.json() can come to
ContentOutcomes ==
    { [kind |-> "network_error", item |-> {}],      \* fetch rejects
      [kind |-> "http_error", item |-> {}],         \* !response.ok
      [kind |-> "response_code", item |-> {}] }     \* data.response_code !== 0
    \cup { [kind |-> "ok", item |-> {q}] : q \in RawQuestions }

ContentErrorText(kind) ==
    CASE kind = "network_error" -> <<"fetch failed">>
      [] kind = "http_error" -> <<"OpenTriviaDB API error: ", "503">>
      [] kind = "response_code" -> <<"OpenTriviaDB API error code: ", "5">>

----------------------------------------------------------------------------
(* validateQuestionData of the rate-limited handler *)

MAX_QUESTION_LENGTH == 500
MAX_ANSWER_LENGTH == 200
MAX_ANSWERS_COUNT == 10

\* a text of n characters
TextOfLength(n) == [i \in 1..n |-> "x"]

\* further items of the content source: texts that are empty once sanitized, texts and
\* lists over the maxima, a list with no answer
OddQuestions ==
    LET q == CHOOSE x \in RawQuestions : x.question = <<"Q", "2">> IN
    { [q EXCEPT !.question = <<"<", "b", ">", " ">>],
      [q EXCEPT !.question = TextOfLength(MAX_QUESTION_LENGTH + 1)],
      [q EXCEPT !.correct_answer = TextOfLength(MAX_ANSWER_LENGTH + 1)],
      [q EXCEPT !.incorrect_answers = <<>>],
      [q EXCEPT !.incorrect_answers = [i \in 1..(MAX_ANSWERS_COUNT + 1) |-> <<"d">>]],
      [q EXCEPT !.incorrect_answers = <<<<"d">>, <<" ">>>>],
      [q EXCEPT !.incorrect_answers = <<<<"d">>, TextOfLength(MAX_ANSWER_LENGTH + 1)>>] }

\* throw new Error(message)
Invalid(message) == [error |-> {message}, question |-> {}]

\* the first incorrect answer the map callback throws on, 0 if it throws on none
FirstBadAnswer(sanitized) ==
    LET bad == {i \in 1..Len(sanitized) :
                  Len(sanitized[i]) = 0 \/ Len(sanitized[i]) > MAX_ANSWER_LENGTH}
    IN  IF bad = {} THEN 0 ELSE Least(bad)

\* the text fields of a question
TextsOf(question) ==
    {question.question, question.correct_answer}
        \cup {question.incorrect_answers[i] : i \in 1..Len(question.incorrect_answers)}
        \cup question.category \cup question.type \cup question.difficulty

\* sanitizeText of each of them
SanitizedTexts(question) == [t \in TextsOf(question) |-> sanitizeText(t)]

\* the checks of validateQuestionData on results[0], sanitized[t] being sanitizeText(t)
ValidateQuestion(question, sanitized) ==
    LET sanitizedQuestion == sanitized[question.question]
        sanitizedCorrectAnswer == sanitized[question.correct_answer]
        answers == question.incorrect_answers
        sanitizedIncorrectAnswers == [i \in 1..Len(answers) |-> sanitized[answers[i]]]
        bad == FirstBadAnswer(sanitizedIncorrectAnswers)
    IN  IF question.question = <<>>
        THEN Invalid(<<"Invalid question data: missing or invalid question text">>)
        ELSE IF Len(sanitizedQuestion) = 0
        THEN Invalid(<<"Invalid question data: empty question after sanitization">>)
        ELSE IF Len(sanitizedQuestion) > MAX_QUESTION_LENGTH
        THEN Invalid(<<"Invalid question data: question too long (",
                       ToString(Len(sanitizedQuestion)), " > ", ToString(MAX_QUESTION_LENGTH), ")">>)
        ELSE IF question.correct_answer = <<>>
        THEN Invalid(<<"Invalid question data: missing or invalid correct answer">>)
        ELSE IF Len(sanitizedCorrectAnswer) = 0
        THEN Invalid(<<"Invalid question data: empty correct answer after sanitization">>)
        ELSE IF Len(sanitizedCorrectAnswer) > MAX_ANSWER_LENGTH
        THEN Invalid(<<"Invalid question data: correct answer too long (",
                       ToString(Len(sanitizedCorrectAnswer)), " > ", ToString(MAX_ANSWER_LENGTH), ")">>)
        ELSE IF Len(answers) = 0 \/ Len(answers) > MAX_ANSWERS_COUNT
        THEN Invalid(<<"Invalid question data: incorrect answers count out of range (0-",
                       ToString(MAX_ANSWERS_COUNT), ")">>)
        ELSE IF bad # 0 /\ Len(sanitizedIncorrectAnswers[bad]) = 0
        THEN Invalid(<<"Invalid question data: incorrect answer ", ToString(bad - 1),
                       " is empty after sanitization">>)
        ELSE IF bad # 0
        THEN Invalid(<<"Invalid question data: incorrect answer ", ToString(bad - 1), " too long (",
                       ToString(Len(sanitizedIncorrectAnswers[bad])), " > ", ToString(MAX_ANSWER_LENGTH), ")">>)
        ELSE [ error |-> {},
               question |-> { [ question |-> sanitizedQuestion,
                                correct_answer |-> sanitizedCorrectAnswer,
                                incorrect_answers |-> sanitizedIncorrectAnswers,
                                category |-> {sanitized[t] : t \in question.category},
                                type |-> {sanitized[t] : t \in question.type},
                                difficulty |-> {sanitized[t] : t \in question.difficulty} ] } ]

\* validateQuestionData(data): the error it throws, or the validated question.
\* data is an object with a numeric response_code and an array results of objects
\* whose fields are strings
validateQuestionData(data) ==
    IF Len(data.results) = 0
    THEN Invalid(<<"Invalid API response: missing or empty results array">>)
    ELSE ValidateQuestion(data.results[1], SanitizedTexts(data.results[1]))

TRIVIA_API_SUCCESS_CODE == 0

\* what fetch(OPEN_TRIVIA_DB_API_URL), the content type and response.json() can come to
\* in the rate-limited handler
FetchOutcomes ==
    { [kind |-> "network_error", data |-> {}],      \* fetch rejects
      [kind |-> "http_error", data |-> {}],         \* !response.ok
      [kind |-> "non_json", data |-> {}],           \* content type without application/json
      [kind |-> "json", data |-> {[response_code |-> 5, results |-> <<>>]}] }
    \cup { [kind |-> "json", data |-> {[response_code |-> c, results |-> <<q>>]}] :
              c \in {TRIVIA_API_SUCCESS_CODE, 5}, q \in RawQuestions \cup OddQuestions }

----------------------------------------------------------------------------
(* Handler invocations *)

NoResponse == [status |-> 0, error |-> <<>>, body |-> {}]

\* the catch blocks of get-trivia-question and mark-completed: { error: error.message }, status 500
ErrorResponse(message) == [status |-> 500, error |-> message, body |-> {}]

\* the catch block of mark-question-completed: a fixed text, status 500
FixedErrorResponse == [status |-> 500, error |-> <<"Failed to mark question as completed">>, body |-> {}]

\* reading a property of null
NullTypeError == <<"Cannot read properties of null (reading 'id')">>

IdleReq ==
    [ kind |-> "idle", pc |-> "idle", headers |-> NoHeaders, device |-> "none",
      deviceId |-> "", today |-> 0,
      fetched |-> {}, questionData |-> {}, userAttempt |-> {},
      createdQuestion |-> FALSE, createdAttempt |-> FALSE, lostRace |-> FALSE,
      afterCompleted |-> FALSE,
      response |-> NoResponse ]

\* a slot takes a new invocation when it holds none or a finished one
Free(r) == req[r].pc \in {"idle", "done"}

\* a mutant of STEP 5: user_status is built from the defaults of a new attempt
QuestionResponseOfNewAttempt(questionData, userAttempt) ==
    [ status |-> 200, error |-> <<>>,
      body |-> { [ id |-> q.id,
                   question |-> q.question_text,
                   correct_answer |-> q.correct_answer,
                   incorrect_answers |-> q.incorrect_answers,
                   user_status |-> [ has_attempted |-> FALSE,
                                     is_completed |-> FALSE,
                                     can_attempt |-> TRUE ] ]
                 : <<q, a>> \in questionData \X userAttempt } ]

\* STEP 5 of get-trivia-question
QuestionResponse(questionData, userAttempt) ==
    [ status |-> 200, error |-> <<>>,
      body |-> { [ id |-> q.id,
                   question |-> q.question_text,
                   correct_answer |-> q.correct_answer,
                   incorrect_answers |-> q.incorrect_answers,
                   user_status |-> [ has_attempted |-> a.has_attempted,
                                     is_completed |-> a.is_completed,
                                     can_attempt |-> ~a.is_completed ] ]
                 : <<q, a>> \in questionData \X userAttempt } ]

\* the success response of both completion handlers
CompletedResponse(updatedAttempt) ==
    [ status |-> 200, error |-> <<>>,
      body |-> { [ success |-> TRUE,
                   message |-> "Question marked as completed",
                   user_status |-> [ has_attempted |-> a.has_attempted,
                                     is_completed |-> a.is_completed,
                                     can_attempt |-> FALSE ] ]
                 : a \in updatedAttempt } ]

\* the handler returns: its locals are gone, the response (and the history flags) stay
Finish(r, response) ==
    req' = [req EXCEPT ![r].pc = "done", ![r].response = response, ![r].headers = NoHeaders,
                       ![r].fetched = {}, ![r].questionData = {}]

(* get-trivia-question, persistence version *)

\* a get-trivia-question request arrives at the handler
GetArrives(r, h) ==
    /\ Free(r)
    /\ req' = [req EXCEPT ![r] =
                 [IdleReq EXCEPT !.kind = "get", !.pc = "STEP1", !.headers = h, !.device = h.device,
                                 !.deviceId = DeviceIdOf(h), !.today = clock,
                                 !.afterCompleted = (<<DeviceIdOf(h), clock>> \in completedOk)]]
    /\ UNCHANGED <<clock, daily_questions, user_question_attempts, completedOk>>
    /\ UNCHANGED rlVars
    /\ UNCHANGED sanitizer

\* the request of a caller outside the model of the app
GetStart(r, h) ==
    /\ GetArrives(r, h)
    /\ UNCHANGED appVars

GetSelectQuestion(r, fail) ==
    /\ req[r].kind = "get" /\ req[r].pc = "STEP1"
    /\ LET res == IF fail THEN Failed ELSE SelectQuestion(req[r].today) IN
         IF \E e \in res.error : e.code # "PGRST116"
         THEN \E e \in res.error : Finish(r, ErrorResponse(<<"Database error: ", e.message>>))
         ELSE IF res.data # {}
              THEN req' = [req EXCEPT ![r].questionData = res.data, ![r].pc = "STEP4"]
              ELSE req' = [req EXCEPT ![r].pc = "STEP2"]
    /\ UNCHANGED <<clock, daily_questions, user_question_attempts, completedOk>>
    /\ UNCHANGED rlVars
    /\ UNCHANGED sanitizer
    /\ UNCHANGED appVars

GetFetchContent(r, o) ==
    /\ req[r].kind = "get" /\ req[r].pc = "STEP2"
    /\
         IF o.kind # "ok"
         THEN Finish(r, ErrorResponse(ContentErrorText(o.kind)))
         ELSE req' = [req EXCEPT ![r].fetched = o.item, ![r].pc = "STEP3"]
    /\ UNCHANGED <<clock, daily_questions, user_question_attempts, completedOk>>
    /\ UNCHANGED rlVars
    /\ UNCHANGED sanitizer
    /\ UNCHANGED appVars

GetInsertQuestion(r, fail) ==
    /\ req[r].kind = "get" /\ req[r].pc = "STEP3"
    /\ \E question \in req[r].fetched :
         LET row == QuestionRow(req[r].today, question)
             ins == IF fail THEN [table |-> daily_questions, error |-> {DbFailure}]
                    ELSE InsertQuestion(row)
         IN  /\ daily_questions' = ins.table
             /\ IF ins.error = {}
                THEN req' = [req EXCEPT ![r].questionData = {row}, ![r].createdQuestion = TRUE,
                                        ![r].fetched = {}, ![r].pc = "STEP4"]
                ELSE IF \E e \in ins.error : e.code = "23505"
                     THEN req' = [req EXCEPT ![r].fetched = {}, ![r].lostRace = TRUE,
                                             ![r].pc = "raceReread"]
                     ELSE \E e \in ins.error : Finish(r, ErrorResponse(<<"Insert error: ", e.message>>))
    /\ UNCHANGED <<clock, user_question_attempts, completedOk>>
    /\ UNCHANGED rlVars
    /\ UNCHANGED sanitizer
    /\ UNCHANGED appVars

\* a mutant of the conflict branch: no re-read, the request goes on with a row it
\* built itself and that was never stored
GetRaceWithoutReread(r, fail) ==
    /\ req[r].kind = "get" /\ req[r].pc = "raceReread"
    /\ req' = [req EXCEPT ![r].questionData =
                               {QuestionRow(req[r].today, CHOOSE q \in RawQuestions : TRUE)},
                           ![r].pc = "STEP4"]
    /\ UNCHANGED <<clock, daily_questions, user_question_attempts, completedOk>>
    /\ UNCHANGED rlVars
    /\ UNCHANGED sanitizer
    /\ UNCHANGED appVars

GetRaceReread(r, fail) ==
    /\ req[r].kind = "get" /\ req[r].pc = "raceReread"
    /\ LET res == IF fail THEN Failed ELSE SelectQuestion(req[r].today) IN
         req' = [req EXCEPT ![r].questionData = res.data, ![r].pc = "STEP4"]
    /\ UNCHANGED <<clock, daily_questions, user_question_attempts, completedOk>>
    /\ UNCHANGED rlVars
    /\ UNCHANGED sanitizer
    /\ UNCHANGED appVars

GetSelectAttempt(r, fail) ==
    /\ req[r].kind = "get" /\ req[r].pc = "STEP4"
    /\ LET res == IF fail THEN Failed ELSE SelectAttempt(req[r].deviceId, req[r].today) IN
         IF \E e \in res.error : e.code # "PGRST116"
         THEN \E e \in res.error : Finish(r, ErrorResponse(<<"User attempt fetch error: ", e.message>>))
         ELSE IF req[r].questionData = {}
              THEN Finish(r, ErrorResponse(NullTypeError))
              ELSE IF res.data # {}
                   THEN req' = [req EXCEPT ![r].userAttempt = res.data, ![r].pc = "done",
                                           ![r].questionData = {}, ![r].headers = NoHeaders,
                                           ![r].response = QuestionResponse(req[r].questionData, res.data)]
                   ELSE req' = [req EXCEPT ![r].pc = "attemptInsert"]
    /\ UNCHANGED <<clock, daily_questions, user_question_attempts, completedOk>>
    /\ UNCHANGED rlVars
    /\ UNCHANGED sanitizer
    /\ UNCHANGED appVars

GetInsertAttempt(r, fail) ==
    /\ req[r].kind = "get" /\ req[r].pc = "attemptInsert"
    /\ \E q \in req[r].questionData :
         LET row == AttemptRow(req[r].deviceId, req[r].today, q.id)
             ins == IF fail THEN [table |-> user_question_attempts, error |-> {DbFailure}]
                    ELSE InsertAttempt(row)
         IN  /\ user_question_attempts' = ins.table
             /\ IF ins.error = {}
                THEN req' = [req EXCEPT ![r].userAttempt = {row}, ![r].createdAttempt = TRUE,
                                        ![r].pc = "done", ![r].questionData = {},
                                        ![r].headers = NoHeaders,
                                        ![r].response = QuestionResponse(req[r].questionData, {row})]
                ELSE \E e \in ins.error :
                         Finish(r, ErrorResponse(<<"Attempt insert error: ", e.message>>))
    /\ UNCHANGED <<clock, daily_questions, completedOk>>
    /\ UNCHANGED rlVars
    /\ UNCHANGED sanitizer
    /\ UNCHANGED appVars

(* the completion handlers *)

\* a mutant of the update: an upsert, which writes the completed row when none matches
UpsertCompleted(deviceId, today) ==
    IF AttemptKeyTaken(deviceId, today) THEN CompletedRows(deviceId, today)
    ELSE user_question_attempts \cup
           { [AttemptRow(deviceId, today, <<today, 0>>) EXCEPT !.has_attempted = TRUE, !.is_completed = TRUE] }

\* the table after the update statement
UpdateCompleted(deviceId, today) == CompletedRows(deviceId, today)

\* update(..).eq(..).eq(..).select().single(): the table after it and what it returns
UpdateAttempt(deviceId, today) ==
    LET after == UpdateCompleted(deviceId, today) IN
    [ table |-> after,
      result |-> Single({a \in after : a.device_id = deviceId /\ a.question_date = today}) ]

MarkCompletedStart(r, h) ==
    /\ Free(r)
    /\ req' = [req EXCEPT ![r] =
                 [IdleReq EXCEPT !.kind = "markCompleted", !.pc = "update", !.headers = h, !.device = h.device,
                                 !.deviceId = DeviceIdOf(h), !.today = clock]]
    /\ UNCHANGED <<clock, daily_questions, user_question_attempts, completedOk>>
    /\ UNCHANGED rlVars
    /\ UNCHANGED sanitizer
    /\ UNCHANGED appVars

MarkCompletedUpdate(r, fail) ==
    /\ req[r].kind = "markCompleted" /\ req[r].pc = "update"
    /\ LET upd == UpdateAttempt(req[r].deviceId, req[r].today)
             res == IF fail THEN Failed ELSE upd.result
         IN  /\ user_question_attempts' = IF fail THEN user_question_attempts ELSE upd.table
             /\ IF res.error # {}
                THEN /\ \E e \in res.error :
                          Finish(r, ErrorResponse(<<"Failed to mark question as completed: ", e.message>>))
                     /\ UNCHANGED completedOk
                ELSE /\ req' = [req EXCEPT ![r].userAttempt = res.data, ![r].pc = "done",
                                           ![r].headers = NoHeaders,
                                           ![r].response = CompletedResponse(res.data)]
                     /\ completedOk' = completedOk \cup {<<req[r].deviceId, req[r].today>>}
    /\ UNCHANGED <<clock, daily_questions>>
    /\ UNCHANGED rlVars
    /\ UNCHANGED sanitizer
    /\ UNCHANGED appVars

\* a mark-question-completed request arrives at the handler
MarkQuestionCompletedArrives(r, h) ==
    /\ Free(r)
    /\ req' = [req EXCEPT ![r] =
                 [IdleReq EXCEPT !.kind = "markQuestionCompleted", !.pc = "update", !.headers = h, !.device = h.device,
                                 !.deviceId = DeviceIdWithForwardedFor(h), !.today = clock]]
    /\ UNCHANGED <<clock, daily_questions, user_question_attempts, completedOk>>
    /\ UNCHANGED rlVars
    /\ UNCHANGED sanitizer

\* the request of a caller outside the model of the app
MarkQuestionCompletedStart(r, h) ==
    /\ MarkQuestionCompletedArrives(r, h)
    /\ UNCHANGED appVars

MarkQuestionCompletedUpdate(r, fail) ==
    /\ req[r].kind = "markQuestionCompleted" /\ req[r].pc = "update"
    /\ LET upd == UpdateAttempt(req[r].deviceId, req[r].today)
             res == IF fail THEN Failed ELSE upd.result
         IN  /\ user_question_attempts' = IF fail THEN user_question_attempts ELSE upd.table
             /\ IF res.error # {}
                THEN /\ Finish(r, FixedErrorResponse)
                     /\ UNCHANGED completedOk
                ELSE /\ req' = [req EXCEPT ![r].userAttempt = res.data, ![r].pc = "done",
                                           ![r].headers = NoHeaders,
                                           ![r].response = CompletedResponse(res.data)]
                     /\ completedOk' = completedOk \cup {<<req[r].deviceId, req[r].today>>}
    /\ UNCHANGED <<clock, daily_questions>>
    /\ UNCHANGED rlVars
    /\ UNCHANGED sanitizer
    /\ UNCHANGED appVars

\* midnight UTC passes
NextDay ==
    /\ clock < MaxDay
    /\ clock' = clock + 1
    /\ UNCHANGED <<daily_questions, user_question_attempts, req, completedOk>>
    /\ UNCHANGED rlVars
    /\ UNCHANGED sanitizer
    /\ UNCHANGED appVars

InitDb ==
    /\ clock = 1
    /\ daily_questions = {}
    /\ user_question_attempts = {}
    /\ req = [r \in Slots |-> IdleReq]
    /\ completedOk = {}

----------------------------------------------------------------------------
(* RateLimiter: store is the Map's entries in insertion order *)

\* store.get(clientId): the record, if any
StoreGet(st, clientId) == {st[i] : i \in {j \in 1..Len(st) : st[j].clientId = clientId}}

\* store.set(clientId, record): an existing key keeps its place, a new one goes last
StoreSet(st, record) ==
    IF \E i \in 1..Len(st) : st[i].clientId = record.clientId
    THEN [i \in 1..Len(st) |-> IF st[i].clientId = record.clientId THEN record ELSE st[i]]
    ELSE Append(st, record)

\* store.delete(key) for each key
StoreDelete(st, keys) == SelectSeq(st, LAMBDA e : e.clientId \notin keys)

\* a mutant of cleanup: no buffer of one window after resetTime
cleanupAtExpiry(st, t) ==
    StoreDelete(st, {st[i].clientId : i \in {j \in 1..Len(st) : t > st[j].resetTime}})

\* cleanup(now): drop the records with now > resetTime + windowMs
cleanup(st, t) ==
    StoreDelete(st, {st[i].clientId : i \in {j \in 1..Len(st) : t > st[j].resetTime + WindowMs}})

\* a mutant of performCleanupIfNeeded: the cleanup runs in every call
performCleanupAlways(st, last, t) == [store |-> cleanup(st, t), lastCleanup |-> t]

\* performCleanupIfNeeded(now): the store and lastCleanup after it
performCleanupIfNeeded(st, last, t) ==
    IF t - last < CleanupIntervalMs
    THEN [store |-> st, lastCleanup |-> last]
    ELSE [store |-> cleanup(st, t), lastCleanup |-> t]

RECURSIVE InsertSorted(_, _)
\* insert e after every entry whose lastAccess is not greater (a stable sort step)
InsertSorted(sorted, e) ==
    IF sorted = <<>> THEN <<e>>
    ELSE IF e.lastAccess < Head(sorted).lastAccess
         THEN <<e>> \o sorted
         ELSE <<Head(sorted)>> \o InsertSorted(Tail(sorted), e)

\* a mutant of the sort: the entries stay in insertion order
InsertionOrder(entries) == entries

RECURSIVE SortByLastAccess(_)
\* entries.sort((a, b) => a[1].lastAccess - b[1].lastAccess): stable, ascending
SortByLastAccess(entries) ==
    IF entries = <<>> THEN <<>>
    ELSE InsertSorted(SortByLastAccess(SubSeq(entries, 1, Len(entries) - 1)), entries[Len(entries)])

\* Math.floor(entries.length * 0.25)
ToRemove(n) == n \div 4

\* evictOldestEntries(): delete the first floor(25%) entries in lastAccess order
evictOldestEntries(st) ==
    LET entries == SortByLastAccess(st) IN
    StoreDelete(st, {entries[i].clientId : i \in 1..ToRemove(Len(entries))})

\* a mutant of the limit test: one request too many passes
WithinLimitOffByOne(count) == count <= maxRequests

\* record.count < this.maxRequests
WithinLimit(count) == count < maxRequests

\* a mutant of the expiry test: the window is over at resetTime already
WindowExpiredAtReset(record, t) == \E rec \in record : t >= rec.resetTime

\* now > record.resetTime, for a record that exists
WindowExpired(record, t) == \E rec \in record : t > rec.resetTime

\* isRateLimited(clientId) at Date.now() = t: the store, lastCleanup and the result
isRateLimited(st0, last0, clientId, t) ==
    LET cleaned == performCleanupIfNeeded(st0, last0, t)
        st == cleaned.store
        record == StoreGet(st, clientId)
    IN  IF record = {} \/ WindowExpired(record, t)
        THEN LET room == IF Len(st) >= maxStoreSize /\ record = {}
                         THEN evictOldestEntries(st) ELSE st
             IN  [ store |-> StoreSet(room, [clientId |-> clientId, count |-> 1,
                                             resetTime |-> t + WindowMs, lastAccess |-> t]),
                   lastCleanup |-> cleaned.lastCleanup,
                   result |-> FALSE ]
        ELSE LET rec == CHOOSE x \in record : TRUE IN
             IF WithinLimit(rec.count)
             THEN [ store |-> StoreSet(st, [rec EXCEPT !.lastAccess = t, !.count = rec.count + 1]),
                    lastCleanup |-> cleaned.lastCleanup,
                    result |-> FALSE ]
             ELSE [ store |-> StoreSet(st, [rec EXCEPT !.lastAccess = t]),
                    lastCleanup |-> cleaned.lastCleanup,
                    result |-> TRUE ]

NoCall == [clientId |-> 0, result |-> FALSE, expired |-> FALSE, afterLimit |-> FALSE,
           nth |-> 0, seen |-> 0]

\* client identifiers are opaque to the limiter: the clients are numbered in the order
\* of their first calls, so the next caller is a known client or the first unknown one
Callers == 1..(lastCall.seen + 1)

\* rateLimiter.isRateLimited(clientId) as it acts on the limiter
CallIsRateLimited(clientId) ==
    LET out == isRateLimited(store, lastCleanup, clientId, now)
        before == StoreGet(store, clientId)
        expired == \E rec \in before : now > rec.resetTime
        \* the client's call before this one was rejected, and its window has since elapsed
        afterLimit == expired /\ lastCall.clientId = clientId /\ lastCall.result
        \* the place of this call in the client's run of calls since its window opened,
        \* 0 once a call of another client came in between
        nth == IF before = {} \/ expired THEN 1
               ELSE IF lastCall.clientId = clientId /\ lastCall.nth >= 1
                    THEN (IF lastCall.nth > maxRequests THEN lastCall.nth ELSE lastCall.nth + 1)
                    ELSE 0
    IN  /\ store' = out.store
        /\ lastCleanup' = out.lastCleanup
        /\ lastCall' = [clientId |-> clientId, result |-> out.result, expired |-> expired,
                        afterLimit |-> afterLimit, nth |-> nth,
                        seen |-> IF clientId > lastCall.seen THEN clientId ELSE lastCall.seen]
        /\ UNCHANGED <<now, maxRequests, maxStoreSize>>

\* a call of rateLimiter.isRateLimited(clientId) on its own
IsRateLimited(clientId) ==
    /\ clientId \in Callers
    /\ CallIsRateLimited(clientId)
    /\ UNCHANGED dbVars
    /\ UNCHANGED sanitizer
    /\ UNCHANGED appVars

(* get-trivia-question, rate-limited version *)

\* the response of a rate-limited request
RateLimitResponse ==
    [ status |-> 429, error |-> <<"Rate limit exceeded. Please try again later.">>,
      body |-> { [retryAfter |-> 60, RetryAfter |-> "60", XRateLimitLimit |-> "10",
                  XRateLimitWindow |-> "60"] } ]

\* the message of the error the try block throws on outcome o, none if it returns;
\* validated is what validateQuestionData returns or throws on the outcome's data
FetchErrorMessage(o, validated) ==
    CASE o.kind = "network_error" -> {<<"error sending request for url">>}
      [] o.kind = "http_error" -> {<<"OpenTriviaDB", " API returned ", "503", ": ", "Service Unavailable">>}
      [] o.kind = "non_json" -> {<<"OpenTriviaDB", " API returned non-JSON response">>}
      [] o.kind = "json" ->
            IF \E v \in validated : v.error # {} THEN UNION {v.error : v \in validated}
            ELSE IF \E d \in o.data : d.response_code # TRIVIA_API_SUCCESS_CODE
                 THEN {<<"Failed to fetch trivia question from Open Trivia Database API">>}
                 ELSE {}

\* the catch block: errorMessage.includes('OpenTriviaDB') picks one of two fixed texts
ClientErrorResponse(errorMessage) ==
    [ status |-> 500,
      error |-> IF \E i \in 1..Len(errorMessage) : errorMessage[i] = "OpenTriviaDB"
                THEN <<"Failed to fetch trivia question. Please try again later.">>
                ELSE <<"An error occurred while processing your request.">>,
      body |-> {} ]

\* the request arrives: the rate limiting check, and the 429 response if it is limited
FetchStart(r, h) ==
    /\ Free(r)
    /\ CallIsRateLimited(ClientIdOf(h))
    /\ IF isRateLimited(store, lastCleanup, ClientIdOf(h), now).result
       THEN req' = [req EXCEPT ![r] =
                      [IdleReq EXCEPT !.kind = "fetch", !.pc = "done", !.device = h.device,
                                      !.response = RateLimitResponse]]
       ELSE req' = [req EXCEPT ![r] =
                      [IdleReq EXCEPT !.kind = "fetch", !.pc = "fetch", !.device = h.device]]
    /\ UNCHANGED <<clock, daily_questions, user_question_attempts, completedOk>>
    /\ UNCHANGED sanitizer
    /\ UNCHANGED appVars

\* the response, given the message thrown (if any) and the validated question
RespondTo(errorMessage, validated) ==
    IF errorMessage # {}
    THEN ClientErrorResponse(CHOOSE m \in errorMessage : TRUE)
    ELSE [status |-> 200, error |-> <<>>, body |-> UNION {v.question : v \in validated}]

\* the try and catch blocks, given what validateQuestionData makes of the data
TryFetch(o, validated) == RespondTo(FetchErrorMessage(o, validated), validated)

\* the response of the try and catch blocks on outcome o
FetchResponse(o) == TryFetch(o, {validateQuestionData(d) : d \in o.data})

\* the same, outcome by outcome
FetchResponses == [o \in FetchOutcomes |-> FetchResponse(o)]

\* the content source answers: validation, and the response
FetchTrivia(r, o) ==
    /\ req[r].kind = "fetch" /\ req[r].pc = "fetch"
    /\ Finish(r, FetchResponses[o])
    /\ UNCHANGED <<clock, daily_questions, user_question_attempts, completedOk>>
    /\ UNCHANGED rlVars
    /\ UNCHANGED sanitizer
    /\ UNCHANGED appVars

\* the process's clock advances
Tick ==
    /\ now < MaxTime
    /\ now' = now + 1
    /\ UNCHANGED <<store, lastCleanup, maxRequests, maxStoreSize, lastCall>>
    /\ UNCHANGED dbVars
    /\ UNCHANGED sanitizer
    /\ UNCHANGED appVars

\* new RateLimiter(windowMs, maxRequests, maxStoreSize, cleanupIntervalMs)
InitRl ==
    /\ now = 0
    /\ store = <<>>
    /\ lastCleanup = 0
    /\ maxRequests \in 1..MaxRequestsCfg
    /\ maxStoreSize \in 1..MaxStoreCfg
    /\ lastCall = NoCall

\* one constructed limiter that serves no request
RlAtRest ==
    /\ now = 0
    /\ store = <<>>
    /\ lastCleanup = 0
    /\ maxRequests = MaxRequestsCfg
    /\ maxStoreSize = MaxStoreCfg
    /\ lastCall = NoCall

----------------------------------------------------------------------------
(* The app: AsyncStorage, getDeviceId and the hook useTriviaQuestion *)

\* the concurrent invocations of the hook's functions; each has one request slot
Tasks == Slots

\* 'device_' + Date.now() + '_' + Math.random()...: the n-th value it can return
GeneratedId(n) ==
    CASE n = 1 -> "device_1_x"
      [] n = 2 -> "device_2_y"
      [] OTHER -> "device_3_z"

\* generateDeviceId(): the values a call can return
generateDeviceId == {GeneratedId(n) : n \in 1..MaxGenerated}

\* the headers of supabase.functions.invoke(.., {headers: {'x-device-id': deviceId}})
AppHeaders(deviceId) ==
    [device |-> "phoneA", xDeviceId |-> deviceId, xForwardedFor |-> {}, cfConnectingIp |-> {}]

\* an invocation slot that runs nothing; closure holds the state the callback captured
IdleTask ==
    [ kind |-> "none", pc |-> "idle", deviceId |-> {}, storageFailed |-> FALSE,
      closure |-> [userStatus |-> {}, rawQuestionData |-> {}],
      cacheData |-> {}, called |-> FALSE, fromCache |-> FALSE, thrown |-> FALSE ]

\* first launch: empty AsyncStorage, the useState initial values
AppAtRest ==
    app = [ storage |-> [quizr_device_id |-> {}, quizr_daily_question_cache |-> {}],
            rawQuestionData |-> {}, userStatus |-> {}, loading |-> TRUE, error |-> {},
            task |-> [t \in Tasks |-> IdleTask] ]

TaskFree(t) == app.task[t].pc \in {"idle", "done"}

\* fetchQuestion is called: the statements before the first await
fetchQuestion(t) ==
    /\ TaskFree(t)
    /\ app' = [app EXCEPT !.loading = TRUE, !.error = {},
                          !.task[t] = [IdleTask EXCEPT !.kind = "fetch", !.pc = "loadFromCache"]]
    /\ UNCHANGED game
    /\ UNCHANGED dbVars
    /\ UNCHANGED rlVars
    /\ UNCHANGED sanitizer

\* a mutant of the cache test: the entry is served whatever its date
AnyCachedEntry(cache, today) == cache

\* parsedCache.date === getTodaysDate()
CachedForToday(cache, today) == {c \in cache : c.date = today}

\* loadFromCache answers: the entry of today, or null (also when the read fails)
loadFromCache(t, fail) ==
    /\ app.task[t].kind = "fetch" /\ app.task[t].pc = "loadFromCache"
    /\ LET cached == IF fail THEN {}
                     ELSE CachedForToday(app.storage.quizr_daily_question_cache, clock)
       IN  IF cached # {}
           THEN \E c \in cached :
                   app' = [app EXCEPT !.rawQuestionData = {c.question},
                                      !.userStatus = {c.userStatus},
                                      !.loading = FALSE,
                                      !.task[t].pc = "done", !.task[t].fromCache = TRUE]
           ELSE app' = [app EXCEPT !.task[t].pc = "getItem"]
    /\ UNCHANGED game
    /\ UNCHANGED dbVars
    /\ UNCHANGED rlVars
    /\ UNCHANGED sanitizer

\* getDeviceId: AsyncStorage.getItem(DEVICE_ID_KEY) answers; a stored id is returned,
\* without one an id is generated, and a rejected read ends in the catch block
getDeviceIdReads(t, fail) ==
    /\ app.task[t].pc = "getItem"
    /\ IF fail
       THEN \E g \in generateDeviceId :
               app' = [app EXCEPT !.task[t].deviceId = {g}, !.task[t].storageFailed = TRUE,
                                  !.task[t].pc = "invoke"]
       ELSE IF app.storage.quizr_device_id # {}
            THEN app' = [app EXCEPT !.task[t].deviceId = app.storage.quizr_device_id,
                                    !.task[t].pc = "invoke"]
            ELSE \E g \in generateDeviceId :
                    app' = [app EXCEPT !.task[t].deviceId = {g}, !.task[t].pc = "setItem"]
    /\ UNCHANGED game
    /\ UNCHANGED dbVars
    /\ UNCHANGED rlVars
    /\ UNCHANGED sanitizer

\* getDeviceId: AsyncStorage.setItem(DEVICE_ID_KEY, deviceId) answers
getDeviceIdWrites(t, fail) ==
    /\ app.task[t].pc = "setItem"
    /\ IF fail
       THEN \E g \in generateDeviceId :
               app' = [app EXCEPT !.task[t].deviceId = {g}, !.task[t].storageFailed = TRUE,
                                  !.task[t].pc = "invoke"]
       ELSE app' = [app EXCEPT !.storage.quizr_device_id = app.task[t].deviceId,
                               !.task[t].pc = "invoke"]
    /\ UNCHANGED game
    /\ UNCHANGED dbVars
    /\ UNCHANGED rlVars
    /\ UNCHANGED sanitizer

\* supabase.functions.invoke('get-trivia-question', ..)
invokeGetTriviaQuestion(t) ==
    /\ app.task[t].kind = "fetch" /\ app.task[t].pc = "invoke"
    /\ GetArrives(t, AppHeaders(app.task[t].deviceId))
    /\ app' = [app EXCEPT !.task[t].pc = "await", !.task[t].called = TRUE]
    /\ UNCHANGED game

\* const { user_status, ...questionData } = data
QuestionDataOf(data) ==
    [ id |-> data.id, question |-> data.question, correct_answer |-> data.correct_answer,
      incorrect_answers |-> data.incorrect_answers ]

\* a mutant of the cache entry: tagged with the day before
CacheDataOfYesterday(questionData, userStatus) ==
    [date |-> clock - 1, question |-> questionData, userStatus |-> userStatus]

\* saveToCache, up to its await: cacheData, with date: getTodaysDate()
CacheData(questionData, userStatus) ==
    [date |-> clock, question |-> questionData, userStatus |-> userStatus]

\* fetchQuestion goes on after the invoke: an error response sets the error state,
\* data sets the question and the status and calls saveToCache
fetchQuestionResumes(t) ==
    /\ app.task[t].kind = "fetch" /\ app.task[t].pc = "await"
    /\ req[t].pc = "done"
    /\ IF req[t].response.status # 200
       THEN app' = [app EXCEPT !.error = {"Failed to load daily question. Please try again later."},
                               !.rawQuestionData = {}, !.userStatus = {}, !.loading = FALSE,
                               !.task[t].pc = "done"]
       ELSE \E data \in req[t].response.body :
               app' = [app EXCEPT !.rawQuestionData = {QuestionDataOf(data)},
                                  !.userStatus = {data.user_status},
                                  !.error = {},
                                  !.task[t].cacheData =
                                      {CacheData(QuestionDataOf(data), data.user_status)},
                                  !.task[t].pc = "saveToCache"]
    /\ UNCHANGED game
    /\ UNCHANGED dbVars
    /\ UNCHANGED rlVars
    /\ UNCHANGED sanitizer

\* saveToCache: AsyncStorage.setItem(DAILY_QUESTION_CACHE_KEY, ..) answers; a failure
\* is logged and dropped; the caller returns (fetchQuestion through its finally block)
saveToCache(t, fail) ==
    /\ app.task[t].pc = "saveToCache"
    /\ app' = [app EXCEPT !.storage.quizr_daily_question_cache =
                              IF fail THEN @ ELSE app.task[t].cacheData,
                          !.loading = IF app.task[t].kind = "fetch" THEN FALSE ELSE @,
                          !.task[t].pc = "done"]
    /\ UNCHANGED game
    /\ UNCHANGED dbVars
    /\ UNCHANGED rlVars
    /\ UNCHANGED sanitizer

\* a mutant of the guard of markCompleted: only a missing status stops it
NoStatus(userStatus) == userStatus = {}

\* !userStatus || userStatus.is_completed
NothingToMark(userStatus) == userStatus = {} \/ (\E s \in userStatus : s.is_completed)

\* markCompleted is called: it returns at once, or runs up to its first await
markCompleted(t) ==
    /\ TaskFree(t)
    /\ app' = [app EXCEPT !.task[t] =
                 [IdleTask EXCEPT !.kind = "mark",
                                  !.pc = IF NothingToMark(app.userStatus) THEN "done" ELSE "getItem",
                                  !.closure = [userStatus |-> app.userStatus,
                                               rawQuestionData |-> app.rawQuestionData]]]
    /\ UNCHANGED game
    /\ UNCHANGED dbVars
    /\ UNCHANGED rlVars
    /\ UNCHANGED sanitizer

\* supabase.functions.invoke('mark-question-completed', ..)
invokeMarkQuestionCompleted(t) ==
    /\ app.task[t].kind = "mark" /\ app.task[t].pc = "invoke"
    /\ MarkQuestionCompletedArrives(t, AppHeaders(app.task[t].deviceId))
    /\ app' = [app EXCEPT !.task[t].pc = "await", !.task[t].called = TRUE]
    /\ UNCHANGED game

\* markCompleted goes on after the invoke: an error response is thrown on, a
\* user_status is set and, with a question in the closure, written to the cache
markCompletedResumes(t) ==
    /\ app.task[t].kind = "mark" /\ app.task[t].pc = "await"
    /\ req[t].pc = "done"
    /\ IF req[t].response.status # 200
       THEN app' = [app EXCEPT !.task[t].thrown = TRUE, !.task[t].pc = "done"]
       ELSE \E data \in req[t].response.body :
               IF app.task[t].closure.rawQuestionData # {}
               THEN app' = [app EXCEPT !.userStatus = {data.user_status},
                                       !.task[t].cacheData =
                                           {CacheData(q, data.user_status) :
                                              q \in app.task[t].closure.rawQuestionData},
                                       !.task[t].pc = "saveToCache"]
               ELSE app' = [app EXCEPT !.userStatus = {data.user_status},
                                       !.task[t].pc = "done"]
    /\ UNCHANGED game
    /\ UNCHANGED dbVars
    /\ UNCHANGED rlVars
    /\ UNCHANGED sanitizer

----------------------------------------------------------------------------
(* The component QuestionGame *)

\* the prop question: its correct answer and the options DeskCalendarPage offers
GameQuestion ==
    [ correct_answer |-> <<"A">>, answer_options |-> {<<"A">>, <<"a">>, <<"b">>} ]

\* the values of the prop userStatus: null or a status of the server
GameStatuses ==
    { {},
      {[has_attempted |-> FALSE, is_completed |-> FALSE, can_attempt |-> TRUE]},
      {[has_attempted |-> TRUE, is_completed |-> TRUE, can_attempt |-> FALSE]} }

\* String.prototype.toLowerCase on the letters of the options
LowerChar(c) ==
    CASE c = "A" -> "a"
      [] c = "B" -> "b"
      [] OTHER -> c

toLowerCase(s) == [i \in DOMAIN s |-> LowerChar(s[i])]

\* userStatus?.is_completed: undefined (falsy) for a null userStatus
IsCompleted(userStatus) == \E s \in userStatus : s.is_completed

\* the useState initial values of a mounted QuestionGame; pending holds the
\* resultMessage of each handleFlipPage call waiting for onMarkCompleted
MountedGame ==
    [ userStatus |-> {}, selectedAnswer |-> {}, message |-> <<>>,
      isPageFlipped |-> FALSE, showCorrectAnswer |-> FALSE, announcementText |-> <<>>,
      pending |-> <<>>, lastEvent |-> "mount" ]

GameAtRest == game = MountedGame

\* the parent renders the component with another userStatus
render(userStatus) ==
    /\ userStatus # game.userStatus
    /\ game' = [game EXCEPT !.userStatus = userStatus, !.lastEvent = "render"]
    /\ UNCHANGED app
    /\ UNCHANGED dbVars
    /\ UNCHANGED rlVars
    /\ UNCHANGED sanitizer

handleAnswerSelected(option) ==
    /\ IF IsCompleted(game.userStatus)
       THEN game' = [game EXCEPT !.lastEvent = "handleAnswerSelected"]
       ELSE game' = [game EXCEPT !.selectedAnswer = {option},
                                 !.announcementText = <<"Selected answer: ">> \o option,
                                 !.lastEvent = "handleAnswerSelected"]
    /\ UNCHANGED app
    /\ UNCHANGED dbVars
    /\ UNCHANGED rlVars
    /\ UNCHANGED sanitizer

\* the memoized isAnswerCorrect
isAnswerCorrect(selectedAnswer) ==
    \E a \in selectedAnswer : toLowerCase(a) = toLowerCase(GameQuestion.correct_answer)

\* a mutant of the selection test: no flip asks for a selection
SelectionNeverRequired(userStatus, selectedAnswer) == FALSE

\* !userStatus?.is_completed && selectedAnswer === null
SelectionRequired(userStatus, selectedAnswer) ==
    ~IsCompleted(userStatus) /\ selectedAnswer = {}

\* resultMessage before the call of onMarkCompleted
ResultMessage(selectedAnswer) ==
    IF isAnswerCorrect(selectedAnswer)
    THEN <<"Congratulations! You got it right!">>
    ELSE <<"Incorrect. The correct answer was: ">> \o GameQuestion.correct_answer \o <<".">>

\* handleFlipPage up to its return or its await of onMarkCompleted()
handleFlipPage ==
    /\ IF game.isPageFlipped
       THEN game' = [game EXCEPT !.isPageFlipped = FALSE, !.message = <<>>,
                                 !.showCorrectAnswer = FALSE,
                                 !.lastEvent = "handleFlipPage"]
       ELSE IF SelectionRequired(game.userStatus, game.selectedAnswer)
            THEN game' = [game EXCEPT !.message = <<"Please select an answer before revealing.">>,
                                      !.lastEvent = "handleFlipPage"]
            ELSE IF IsCompleted(game.userStatus)
                 THEN game' = [game EXCEPT !.isPageFlipped = TRUE, !.showCorrectAnswer = TRUE,
                                           !.lastEvent = "handleFlipPage"]
                 ELSE /\ Len(game.pending) < MaxPending
                      /\ game' = [game EXCEPT !.isPageFlipped = TRUE,
                                              !.showCorrectAnswer = TRUE,
                                              !.pending = Append(@, ResultMessage(game.selectedAnswer)),
                                              !.lastEvent = "handleFlipPage"]
    /\ UNCHANGED app
    /\ UNCHANGED dbVars
    /\ UNCHANGED rlVars
    /\ UNCHANGED sanitizer

\* pending without its i-th element
WithoutPending(i) ==
    [j \in 1..(Len(game.pending) - 1) |->
        IF j < i THEN game.pending[j] ELSE game.pending[j + 1]]

ThanksForPlaying == <<" Thanks for playing today! Come back tomorrow for a new question.">>

\* onMarkCompleted() of the i-th waiting call resolves, or rejects into the catch block
onMarkCompletedSettles(i, rejected) ==
    /\ i \in 1..Len(game.pending)
    /\ LET resultMessage == IF rejected THEN game.pending[i]
                            ELSE game.pending[i] \o ThanksForPlaying
       IN  game' = [game EXCEPT !.message = resultMessage,
                                !.announcementText = resultMessage,
                                !.pending = WithoutPending(i),
                                !.lastEvent = "settle"]
    /\ UNCHANGED app
    /\ UNCHANGED dbVars
    /\ UNCHANGED rlVars
    /\ UNCHANGED sanitizer

----------------------------------------------------------------------------
(* Specifications *)

\* no request served yet, the limiter at rest
Init == InitDb /\ RlAtRest /\ sanitizer = NoSanitizeCall /\ AppAtRest /\ GameAtRest

\* a limiter just constructed, no persistence request
InitLimiter == InitRl /\ InitDb /\ sanitizer = NoSanitizeCall /\ AppAtRest /\ GameAtRest

\* the outcomes of the content source that are failures
ContentFailures == {o \in ContentOutcomes : o.kind # "ok"}

Next ==
    \/ \E r \in Slots, h \in HeaderSets : GetStart(r, h)
    \/ \E r \in Slots, fail \in BOOLEAN : GetSelectQuestion(r, fail)
    \/ \E r \in Slots, o \in ContentOutcomes : GetFetchContent(r, o)
    \/ \E r \in Slots, fail \in BOOLEAN : GetInsertQuestion(r, fail)
    \/ \E r \in Slots, fail \in BOOLEAN : GetRaceReread(r, fail)
    \/ \E r \in Slots, fail \in BOOLEAN : GetSelectAttempt(r, fail)
    \/ \E r \in Slots, fail \in BOOLEAN : GetInsertAttempt(r, fail)
    \/ \E r \in Slots, h \in HeaderSets : MarkCompletedStart(r, h)
    \/ \E r \in Slots, fail \in BOOLEAN : MarkCompletedUpdate(r, fail)
    \/ \E r \in Slots, h \in HeaderSets : MarkQuestionCompletedStart(r, h)
    \/ \E r \in Slots, fail \in BOOLEAN : MarkQuestionCompletedUpdate(r, fail)

\* the persistence handlers within one UTC day, the persistence service and the
\* content source failing at will
Spec == Init /\ [][Next]_vars

\* the requests that reach the handlers directly, with no x-forwarded-for
Direct == {h \in HeaderSets : h.xForwardedFor = {}}

NextDays ==
    \/ \E r \in Slots, h \in Direct : GetStart(r, h)
    \/ \E r \in Slots : GetSelectQuestion(r, FALSE)
    \/ \E r \in Slots, o \in ContentOutcomes \ ContentFailures : GetFetchContent(r, o)
    \/ \E r \in Slots : GetInsertQuestion(r, FALSE)
    \/ \E r \in Slots : GetRaceReread(r, FALSE)
    \/ \E r \in Slots : GetSelectAttempt(r, FALSE)
    \/ \E r \in Slots : GetInsertAttempt(r, FALSE)
    \/ \E r \in Slots, h \in Direct : MarkCompletedStart(r, h)
    \/ \E r \in Slots : MarkCompletedUpdate(r, FALSE)
    \/ NextDay

\* get-or-create and completion across midnight UTC, every service call answered
SpecDays == Init /\ [][NextDays]_vars

\* the requests that come through the proxy, with x-forwarded-for
Proxied == HeaderSets \ Direct

NextGate ==
    \/ \E r \in Slots, h \in Proxied : FetchStart(r, h)
    \/ \E r \in Slots, o \in FetchOutcomes : FetchTrivia(r, o)
    \/ \E r \in Slots, h \in Proxied : GetStart(r, h)
    \/ \E r \in Slots : GetSelectQuestion(r, FALSE)
    \/ \E r \in Slots, o \in ContentOutcomes \ ContentFailures : GetFetchContent(r, o)
    \/ \E r \in Slots : GetInsertQuestion(r, FALSE)
    \/ \E r \in Slots : GetRaceReread(r, FALSE)
    \/ \E r \in Slots : GetSelectAttempt(r, FALSE)
    \/ \E r \in Slots : GetInsertAttempt(r, FALSE)
    \/ Tick

\* both versions of get-trivia-question deployed next to one limiter, called through
\* the proxy
SpecGate == Init /\ [][NextGate]_vars

NextRl ==
    \/ \E clientId \in ClientIds : IsRateLimited(clientId)
    \/ Tick

\* the hook, one invocation at a time
Sequential == {1}

\* the answers of the content source the app is checked with: one question, one failure
AppContent ==
    {o \in ContentOutcomes : o.kind = "network_error"}
    \cup {[kind |-> "ok", item |-> {CHOOSE q \in RawQuestions : q.correct_answer # <<>>}]}

NextApp ==
    \/ \E t \in Sequential : fetchQuestion(t)
    \/ \E t \in Sequential, fail \in BOOLEAN : loadFromCache(t, fail)
    \/ \E t \in Sequential, fail \in BOOLEAN : getDeviceIdReads(t, fail)
    \/ \E t \in Sequential, fail \in BOOLEAN : getDeviceIdWrites(t, fail)
    \/ \E t \in Sequential : invokeGetTriviaQuestion(t)
    \/ \E t \in Sequential : fetchQuestionResumes(t)
    \/ \E t \in Sequential, fail \in BOOLEAN : saveToCache(t, fail)
    \/ \E t \in Sequential : markCompleted(t)
    \/ \E t \in Sequential : invokeMarkQuestionCompleted(t)
    \/ \E t \in Sequential : markCompletedResumes(t)
    \/ \E r \in Slots : GetSelectQuestion(r, FALSE)
    \/ \E r \in Slots, o \in AppContent : GetFetchContent(r, o)
    \/ \E r \in Slots : GetInsertQuestion(r, FALSE)
    \/ \E r \in Slots : GetSelectAttempt(r, FALSE)
    \/ \E r \in Slots : GetInsertAttempt(r, FALSE)
    \/ \E r \in Slots, fail \in BOOLEAN : MarkQuestionCompletedUpdate(r, fail)
    \/ NextDay

\* one installation of the app against the handlers, across midnight UTC
SpecApp == Init /\ [][NextApp]_vars

NextDevice ==
    \/ \E t \in Tasks : fetchQuestion(t)
    \/ \E t \in Tasks : loadFromCache(t, FALSE)
    \/ \E t \in Tasks, fail \in BOOLEAN : getDeviceIdReads(t, fail)
    \/ \E t \in Tasks, fail \in BOOLEAN : getDeviceIdWrites(t, fail)
    \/ \E t \in Tasks : invokeGetTriviaQuestion(t)
    \/ \E t \in Tasks : fetchQuestionResumes(t)
    \/ \E t \in Tasks : saveToCache(t, FALSE)
    \/ \E r \in Slots : GetSelectQuestion(r, FALSE)
    \/ \E r \in Slots, o \in AppContent : GetFetchContent(r, o)
    \/ \E r \in Slots : GetInsertQuestion(r, FALSE)
    \/ \E r \in Slots : GetRaceReread(r, FALSE)
    \/ \E r \in Slots : GetSelectAttempt(r, FALSE)
    \/ \E r \in Slots : GetInsertAttempt(r, FALSE)

\* concurrent fetchQuestion calls of one installation, from first launch on
SpecDevice == Init /\ [][NextDevice]_vars

NextGame ==
    \/ \E s \in GameStatuses : render(s)
    \/ \E option \in GameQuestion.answer_options : handleAnswerSelected(option)
    \/ handleFlipPage
    \/ \E i \in 1..MaxPending, rejected \in BOOLEAN : onMarkCompletedSettles(i, rejected)

\* one mounted QuestionGame under the user's taps and its parent's renders
SpecGame == Init /\ [][NextGame]_vars

\* the rate limiter
SpecRL == InitLimiter /\ [][NextRl]_vars

\* new RateLimiter(windowMs, 1, EvictStoreSize, cleanupIntervalMs)
InitEvict ==
    /\ now = 0
    /\ store = <<>>
    /\ lastCleanup = 0
    /\ maxRequests = 1
    /\ maxStoreSize = EvictStoreSize
    /\ lastCall = NoCall
    /\ InitDb
    /\ sanitizer = NoSanitizeCall
    /\ AppAtRest
    /\ GameAtRest

NextEvict ==
    \/ \E clientId \in 1..NumEvictClients : IsRateLimited(clientId)
    \/ Tick

\* the rate limiter with more clients than its store has room for
SpecEvict == InitEvict /\ [][NextEvict]_vars

\* the process's clock advances, up to a given instant
TickUntil(limit) ==
    /\ now < limit
    /\ now' = now + 1
    /\ UNCHANGED <<store, lastCleanup, maxRequests, maxStoreSize, lastCall>>
    /\ UNCHANGED dbVars
    /\ UNCHANGED sanitizer
    /\ UNCHANGED appVars

NextLate ==
    \/ \E clientId \in 1..NumLateClients : IsRateLimited(clientId)
    \/ TickUntil(LateTime)

\* the rate limiter over more than two cleanup intervals, its store never full
SpecLate == InitEvict /\ [][NextLate]_vars

\* a text waiting to be sanitized, no request served
InitText == InitSanitizer /\ InitDb /\ RlAtRest /\ AppAtRest /\ GameAtRest

NextSanitize ==
    \/ Sanitize
    \/ Resanitize

\* sanitizeText applied to a text and to its own results
SpecSanitize == InitText /\ [][NextSanitize]_vars

----------------------------------------------------------------------------
(* Properties of the persistence handlers *)

QuestionsOf(today) == {q \in daily_questions : q.question_date = today}
AttemptsOf(deviceId, today) ==
    {a \in user_question_attempts : a.device_id = deviceId /\ a.question_date = today}

\* a get-or-create invocation that has returned a success response
GetSucceeded(r) ==
    req[r].kind = "get" /\ req[r].pc = "done" /\ req[r].response.status = 200

\* a get-or-create invocation past STEP 3: it found today's question or its insert
\* was answered with a row or with the uniqueness conflict
PastQuestionStep(r) ==
    /\ req[r].kind = "get"
    /\ \/ req[r].pc \in {"raceReread", "STEP4", "attemptInsert"}
       \/ GetSucceeded(r)

\* C1: concurrent get-or-create requests of one UTC day leave exactly one row of
\* daily_questions for that date (never two, and one as soon as any request is past
\* its question step), and every success response carries that row's question text
\* and correct answer.
C1_OneQuestionPerDay ==
    /\ \A d \in Days : Cardinality(QuestionsOf(d)) <= 1
    /\ \A r \in Slots : PastQuestionStep(r) => Cardinality(QuestionsOf(req[r].today)) = 1
    /\ \A r \in Slots : GetSucceeded(r) =>
         /\ req[r].response.body # {}
         /\ \A b \in req[r].response.body : \A q \in QuestionsOf(req[r].today) :
              /\ b.question = q.question_text
              /\ b.correct_answer = q.correct_answer
              /\ b.id = q.id

\* two requests raced on the insert; the winner and the loser both answered 200
C1_Witness ==
    \E r1, r2 \in Slots :
        /\ r1 # r2
        /\ GetSucceeded(r1) /\ GetSucceeded(r2)
        /\ req[r1].today = req[r2].today
        /\ req[r1].createdQuestion /\ req[r2].lostRace

\* C2: the uniqueness conflict of the attempt insert is handled by a re-read and is
\* never surfaced to a caller as an error.
C2_ConflictNeverSurfaced ==
    \A r \in Slots :
        (req[r].kind = "get" /\ req[r].pc = "done") =>
            req[r].response.error # <<"Attempt insert error: ", UniqueViolation.message>>

\* C3: there is at most one row of user_question_attempts per (device_id,
\* question_date), and two success responses of get-or-create for one device and day
\* carry the same record, with the same has_attempted and is_completed unless a
\* completion of that device and day has run.
C3_OneAttemptPerDeviceDay ==
    /\ \A d \in DeviceIds, t \in Days : Cardinality(AttemptsOf(d, t)) <= 1
    /\ \A r \in Slots : GetSucceeded(r) =>
         \A a \in req[r].userAttempt : \A b \in req[r].response.body :
            /\ \E row \in AttemptsOf(req[r].deviceId, req[r].today) : row.id = a.id
            /\ b.user_status.has_attempted = a.has_attempted
            /\ b.user_status.is_completed = a.is_completed
    /\ \A r1, r2 \in Slots :
         (GetSucceeded(r1) /\ GetSucceeded(r2)
            /\ req[r1].deviceId = req[r2].deviceId /\ req[r1].today = req[r2].today) =>
         \A a1 \in req[r1].userAttempt, a2 \in req[r2].userAttempt :
            /\ a1.id = a2.id
            /\ (<<req[r1].deviceId, req[r1].today>> \notin completedOk => a1 = a2)

\* a repeated get-or-create: one request created the record, the other found it
C3_Witness ==
    \E r1, r2 \in Slots :
        /\ r1 # r2
        /\ GetSucceeded(r1) /\ GetSucceeded(r2)
        /\ req[r1].deviceId = req[r2].deviceId /\ req[r1].today = req[r2].today
        /\ req[r1].createdAttempt /\ ~req[r2].createdAttempt
        /\ <<req[r1].deviceId, req[r1].today>> \notin completedOk

\* C4: once is_completed is true in the record of a (device_id, question_date) pair,
\* every step leaves that pair with a record, and with is_completed true.
C4_CompletedStaysCompleted ==
    [][ \A a \in user_question_attempts :
            a.is_completed =>
               /\ \E b \in user_question_attempts' :
                     b.device_id = a.device_id /\ b.question_date = a.question_date
               /\ \A b \in user_question_attempts' :
                     (b.device_id = a.device_id /\ b.question_date = a.question_date)
                        => b.is_completed ]_vars

\* a get-or-create that read 'no record' before the completion has run into the
\* completed record with its insert
C4_Witness ==
    \E r \in Slots :
        /\ req[r].kind = "get" /\ req[r].pc = "done"
        /\ req[r].response.error = <<"Attempt insert error: ", UniqueViolation.message>>
        /\ \E a \in AttemptsOf(req[r].deviceId, req[r].today) : a.is_completed

\* the step in which completion invocation r runs its update and returns
CompletionReturns(r) ==
    /\ req[r].kind \in {"markCompleted", "markQuestionCompleted"}
    /\ req[r].pc = "update"
    /\ req'[r].pc = "done"

\* C5: a completion request for a (device_id, today) pair with no record returns an
\* error response (status outside 200..299), creates no record and changes no row.
C5_CompletionWithoutRecordFails ==
    [][ \A r \in Slots :
            (CompletionReturns(r) /\ AttemptsOf(req[r].deviceId, req[r].today) = {}) =>
               /\ req'[r].response.status \notin 200..299
               /\ req'[r].response.status # 0
               /\ user_question_attempts' = user_question_attempts
               /\ daily_questions' = daily_questions ]_vars

\* both completion handlers have answered a request that had no record with an error
C5_Witness ==
    \E r1, r2 \in Slots :
        /\ req[r1].kind = "markCompleted" /\ req[r1].pc = "done"
        /\ req[r1].response.error = <<"Failed to mark question as completed: ", PGRST116.message>>
        /\ req[r2].kind = "markQuestionCompleted" /\ req[r2].pc = "done"
        /\ req[r2].response = FixedErrorResponse
        /\ AttemptsOf(req[r1].deviceId, req[r1].today) = {}
        /\ AttemptsOf(req[r2].deviceId, req[r2].today) = {}

\* the step in which get-or-create invocation r returns from its content source call
\* (STEP 2) or from its question insert (STEP 3): the call or the insert has failed
ProvisioningFails(r) ==
    /\ req[r].kind = "get"
    /\ req[r].pc \in {"STEP2", "STEP3"}
    /\ req'[r].pc = "done"

\* C8: a get-or-create request that found no question and whose content source call
\* or question insert failed (not by conflict) returns an error, and neither a
\* daily_questions row nor a user_question_attempts row has been created by it.
C8_FailedProvisioningCreatesNothing ==
    [][ \A r \in Slots :
            ProvisioningFails(r) =>
               /\ req'[r].response.status = 500
               /\ req'[r].response.body = {}
               /\ req'[r].response.error # <<>>
               /\ ~req'[r].createdQuestion /\ ~req'[r].createdAttempt
               /\ daily_questions' = daily_questions
               /\ user_question_attempts' = user_question_attempts ]_vars

\* one request failed at the content source and one at the insert, and the table is empty
C8_Witness ==
    \E r1, r2 \in Slots :
        /\ req[r1].kind = "get" /\ req[r1].pc = "done"
        /\ req[r1].response.error = ContentErrorText("response_code")
        /\ req[r2].kind = "get" /\ req[r2].pc = "done"
        /\ req[r2].response.error = <<"Insert error: ", DbFailure.message>>
        /\ daily_questions = {} /\ user_question_attempts = {}

\* C9: a row of daily_questions is never updated or deleted: every row of the table
\* is a row of the table after every step.
C9_QuestionRowsImmutable ==
    [][ \A q \in daily_questions : q \in daily_questions' ]_vars

\* a second request has run its insert against the stored row and lost
C9_Witness ==
    \E r \in Slots :
        /\ req[r].lostRace
        /\ QuestionsOf(req[r].today) # {}

\* the response of a successful completion
CompletedOk ==
    [ status |-> 200, error |-> <<>>,
      body |-> { [ success |-> TRUE,
                   message |-> "Question marked as completed",
                   user_status |-> [ has_attempted |-> TRUE,
                                     is_completed |-> TRUE,
                                     can_attempt |-> FALSE ] ] } ]

\* C15: a completion request for a (device_id, today) pair whose record is already
\* completed succeeds, leaves every record as it was (has_attempted and is_completed
\* true before and after), and answers what every successful completion answers:
\* has_attempted true, is_completed true, can_attempt false.
C15_SecondCompletionIsNoOp ==
    [][ \A r \in Slots :
            CompletionReturns(r) =>
               /\ (req'[r].response.status = 200) => (req'[r].response = CompletedOk)
               /\ (\E a \in AttemptsOf(req[r].deviceId, req[r].today) :
                        a.has_attempted /\ a.is_completed) =>
                      /\ req'[r].response = CompletedOk
                      /\ user_question_attempts' = user_question_attempts
                      /\ \A a \in user_question_attempts' :
                            (a.device_id = req[r].deviceId /\ a.question_date = req[r].today)
                               => (a.has_attempted /\ a.is_completed) ]_vars

\* two completion requests of one (device_id, today) pair have both returned success
C15_Witness ==
    \E r1, r2 \in Slots :
        /\ r1 # r2
        /\ req[r1].kind = "markCompleted" /\ req[r2].kind = "markCompleted"
        /\ req[r1].pc = "done" /\ req[r2].pc = "done"
        /\ req[r1].response = CompletedOk /\ req[r2].response = CompletedOk
        /\ req[r1].deviceId = req[r2].deviceId /\ req[r1].today = req[r2].today
        /\ \E a \in AttemptsOf(req[r1].deviceId, req[r1].today) :
              a.has_attempted /\ a.is_completed

\* C16: in every step, every record with is_completed true has has_attempted true,
\* and every record the step creates has has_attempted false and is_completed false.
C16_CompletedImpliesAttempted ==
    [][ /\ \A a \in user_question_attempts' : a.is_completed => a.has_attempted
        /\ \A a \in user_question_attempts' :
              (\A b \in user_question_attempts : b.id # a.id) =>
                 (~a.has_attempted /\ ~a.is_completed) ]_vars

\* a record has been created by one request and completed by another
C16_Witness ==
    /\ \E a \in user_question_attempts : a.is_completed /\ a.has_attempted
    /\ \E r \in Slots : req[r].createdAttempt /\ req[r].pc = "done"
    /\ \E r \in Slots : req[r].kind = "markQuestionCompleted" /\ req[r].response.status = 200

\* C11: two requests of different devices never read, create or update the same
\* user_question_attempts row, whatever headers they carry.
C11_DevicesNeverShareRecord ==
    \A r1, r2 \in Slots :
        (req[r1].device # req[r2].device) =>
            \A a1 \in req[r1].userAttempt, a2 \in req[r2].userAttempt : a1.id # a2.id

\* the limiter holds a record of client c that is at maxRequests in an active window
CurrentlyLimited(c) ==
    \E rec \in StoreGet(store, c) : now <= rec.resetTime /\ rec.count >= maxRequests

\* C12: a get-or-create request of a client that is currently rate-limited is answered
\* with status 429 before any persistence query, and runs no query and no content
\* source call.
C12_GateBeforePersistence ==
    [][ \A r \in Slots :
            ( /\ req[r].kind = "get" /\ req[r].pc = "STEP1"
              /\ CurrentlyLimited(ClientIdOf(req[r].headers))
              /\ req'[r] # req[r] ) =>
                /\ req'[r].pc = "done"
                /\ req'[r].response.status = 429 ]_vars

\* C13: every row of daily_questions holds content that passes the content
\* validation: a question text of 1 to 500 characters, a correct answer of 1 to 200
\* characters, 1 to 10 incorrect answers of 1 to 200 characters each.
C13_OnlyValidatedContentPersisted ==
    \A q \in daily_questions :
        /\ Len(q.question_text) \in 1..MAX_QUESTION_LENGTH
        /\ Len(q.correct_answer) \in 1..MAX_ANSWER_LENGTH
        /\ Len(q.incorrect_answers) \in 1..MAX_ANSWERS_COUNT
        /\ \A i \in 1..Len(q.incorrect_answers) :
              Len(q.incorrect_answers[i]) \in 1..MAX_ANSWER_LENGTH

\* the messages of the errors the persistence service returns
PersistenceErrorTexts == {DbFailure.message, UniqueViolation.message, PGRST116.message}

\* C14: no response of the get-or-create and completion handlers carries the text of
\* a persistence error or of a content source error.
C14_NoInternalDetails ==
    \A r \in Slots :
        req[r].pc = "done" =>
            /\ \A i \in 1..Len(req[r].response.error) :
                  req[r].response.error[i] \notin PersistenceErrorTexts
            /\ \A o \in ContentFailures : req[r].response.error # ContentErrorText(o.kind)

\* C10: a get-or-create request that starts after a completion of its device and day
\* succeeded returns is_completed = true and can_attempt = false, and in every
\* get-or-create response can_attempt is the negation of is_completed.
C10_CompletedThenCannotAttempt ==
    \A r \in Slots : GetSucceeded(r) =>
        \A b \in req[r].response.body :
            /\ b.user_status.can_attempt = ~b.user_status.is_completed
            /\ req[r].afterCompleted =>
                  (b.user_status.is_completed /\ ~b.user_status.can_attempt)

\* a get-or-create that started after the completion has answered 200
C10_Witness ==
    \E r \in Slots : GetSucceeded(r) /\ req[r].afterCompleted

----------------------------------------------------------------------------
(* Properties of the rate limiter *)

\* C6: with maxRequests = N, of the calls one client makes inside one window with no
\* call of another client in between, calls 1..N return false and call N+1 returns
\* true; the first call after the window has elapsed returns false and starts a
\* fresh window with count = 1.
C6_WindowLimit ==
    lastCall.clientId # 0 =>
        /\ lastCall.nth >= 1 => (lastCall.result <=> lastCall.nth > maxRequests)
        /\ (lastCall.expired \/ lastCall.nth = 1) =>
              /\ ~lastCall.result
              /\ \E rec \in StoreGet(store, lastCall.clientId) :
                    /\ rec.count = 1
                    /\ rec.resetTime = rec.lastAccess + WindowMs
                    /\ rec.lastAccess <= now

\* a client was rejected on call N+1, waited for the window to elapse and was admitted
C6_Witness ==
    /\ lastCall.afterLimit
    /\ ~lastCall.result
    /\ \E rec \in StoreGet(store, lastCall.clientId) : rec.count = 1

\* C7: the number of entries of the store never exceeds maxStoreSize, whatever the
\* configured capacity.
C7_StoreBounded == Len(store) <= maxStoreSize

\* C18: a call of isRateLimited(clientId) at time now: if the client has no record or
\* now > resetTime, its record becomes (count 1, resetTime now + windowMs, lastAccess
\* now) and the result is false; otherwise, if count < maxRequests, count grows by one
\* in the same window and the result is false; otherwise the result is true and the
\* count stays. So a call at now = resetTime is inside the window, and every record
\* has 1 <= count <= maxRequests.
C18_IsRateLimitedBehaviour ==
    [][ (now' = now) =>
          LET c == lastCall'.clientId
              before == StoreGet(store, c)
              after == StoreGet(store', c)
          IN  /\ IF before = {} \/ (\E rec \in before : now > rec.resetTime)
                 THEN /\ after = {[clientId |-> c, count |-> 1,
                                    resetTime |-> now + WindowMs, lastAccess |-> now]}
                      /\ ~lastCall'.result
                 ELSE \A rec \in before :
                         IF rec.count < maxRequests
                         THEN /\ ~lastCall'.result
                              /\ \A x \in after : x.count = rec.count + 1 /\ x.resetTime = rec.resetTime
                              /\ after # {}
                         ELSE /\ lastCall'.result
                              /\ \A x \in after : x.count = rec.count /\ x.resetTime = rec.resetTime
                              /\ after # {}
              /\ \A i \in 1..Len(store') : store'[i].count \in 1..maxRequests ]_vars

\* a client at its limit has called at exactly now = resetTime and was rejected
C18_Witness ==
    /\ lastCall.result
    /\ \E rec \in StoreGet(store, lastCall.clientId) :
          rec.resetTime = now /\ rec.lastAccess = now /\ rec.count = maxRequests

----------------------------------------------------------------------------
(* Order of the steps of get-or-create *)

\* C21: a get-or-create request reaches the call of the content source (STEP2) only
\* from its query for today's question (STEP1), and only when no row of today exists;
\* STEP1 is run once, by a new request; when a row exists the request goes on to the
\* attempt (STEP4) or fails, with no content call and no change of daily_questions;
\* a query that fails otherwise ends the request with status 500; and the insert
\* (STEP3) follows the content call only.
C21_ContentSourceOnlyAfterNotFound ==
    [][ \A r \in Slots :
          /\ (req'[r].pc = "STEP1" /\ req'[r] # req[r]) => Free(r)
          /\ (req'[r].pc = "STEP2" /\ req'[r] # req[r]) =>
                (req[r].pc = "STEP1" /\ QuestionsOf(req[r].today) = {})
          /\ (req'[r].pc = "STEP3" /\ req'[r] # req[r]) => req[r].pc = "STEP2"
          /\ (req[r].kind = "get" /\ req[r].pc = "STEP2" /\ req'[r] # req[r]) =>
                req'[r].pc \in {"STEP3", "done"}
          /\ (req[r].kind = "get" /\ req[r].pc = "STEP1" /\ req'[r] # req[r]) =>
                /\ daily_questions' = daily_questions
                /\ req'[r].pc \in {"STEP2", "STEP4", "done"}
                /\ QuestionsOf(req[r].today) # {} => req'[r].pc \in {"STEP4", "done"}
                /\ req'[r].pc = "STEP4" => req'[r].questionData = QuestionsOf(req[r].today)
                /\ req'[r].pc = "done" =>
                      req'[r].response = ErrorResponse(<<"Database error: ", DbFailure.message>>) ]_vars

\* one request has provisioned today's question through the content source, another
\* has found the row and answered without a content call
C21_Witness ==
    \E r1, r2 \in Slots :
        /\ GetSucceeded(r1) /\ req[r1].createdQuestion
        /\ GetSucceeded(r2) /\ ~req[r2].createdQuestion /\ ~req[r2].lostRace
        /\ req[r1].today = req[r2].today

\* C22: the records are keyed by UTC day. A get-or-create of day D' whose key
\* (deviceId, D') has no record goes on to create one, whatever records of other days
\* exist, and the request that creates it answers has_attempted false, is_completed
\* false, can_attempt true; a completion request of day D' whose key has no record
\* fails; and no step changes or removes a record of a day other than the acting
\* request's, so the completed record of day D stays completed.
C22_CompletionIsPerDay ==
    [][ \A r \in Slots :
          /\ (req[r].kind = "get" /\ req[r].pc = "STEP4" /\ req'[r] # req[r]
                 /\ AttemptsOf(req[r].deviceId, req[r].today) = {}) =>
                req'[r].pc = "attemptInsert"
          /\ (req[r].kind = "get" /\ req[r].pc = "attemptInsert" /\ req'[r] # req[r]
                 /\ req'[r].response.status = 200) =>
                /\ \A b \in req'[r].response.body :
                      b.user_status = [has_attempted |-> FALSE, is_completed |-> FALSE,
                                       can_attempt |-> TRUE]
                /\ req'[r].response.body # {}
                /\ \E a \in user_question_attempts' \ user_question_attempts :
                      a.device_id = req[r].deviceId /\ a.question_date = req[r].today
                /\ user_question_attempts \subseteq user_question_attempts'
          /\ (CompletionReturns(r) /\ AttemptsOf(req[r].deviceId, req[r].today) = {}) =>
                /\ req'[r].response.status = 500
                /\ user_question_attempts' = user_question_attempts
          /\ (req'[r] # req[r]) =>
                \A a \in user_question_attempts :
                    (a.question_date # req[r].today \/ a.device_id # req[r].deviceId)
                        => a \in user_question_attempts' ]_vars

\* on day 2 a device whose record of day 1 is completed was refused a completion and
\* has then been given a fresh record by its get-or-create
C22_Witness ==
    \E r1, r2 \in Slots :
        /\ req[r1].kind = "markCompleted" /\ req[r1].pc = "done" /\ req[r1].today = 2
        /\ req[r1].response.status = 500
        /\ req[r2].kind = "get" /\ req[r2].pc = "done" /\ req[r2].today = 2
        /\ req[r2].createdAttempt /\ req[r2].response.status = 200
        /\ req[r1].deviceId = req[r2].deviceId
        /\ \E a \in AttemptsOf(req[r1].deviceId, 1) : a.is_completed
        /\ \E a \in AttemptsOf(req[r1].deviceId, 2) : ~a.is_completed /\ ~a.has_attempted

\* C23: when a get-or-create request of a device has succeeded on a UTC day, every
\* completion request of that device (the same headers) on that day, through either
\* completion handler, resolves the device identifier the get-or-create resolved, and
\* a record exists under its key.
C23_CompletionResolvesSameDevice ==
    \A r1, r2 \in Slots :
        ( /\ GetSucceeded(r1)
          /\ req[r2].kind \in {"markCompleted", "markQuestionCompleted"}
          /\ req[r2].device = req[r1].device
          /\ req[r2].today = req[r1].today ) =>
            /\ req[r2].deviceId = req[r1].deviceId
            /\ AttemptsOf(req[r2].deviceId, req[r2].today) # {}

\* C26: every record of user_question_attempts names, with daily_question_id, a row
\* of daily_questions whose question_date is the record's question_date; so no
\* record is created before the question of its date is stored, also for a request
\* that got the question from the re-read after a uniqueness conflict.
C26_AttemptReferencesQuestionOfItsDate ==
    \A a \in user_question_attempts :
        \E q \in daily_questions :
            q.id = a.daily_question_id /\ q.question_date = a.question_date

\* a request that lost the race for today's question has re-read the winner's row
\* and created its attempt record against it
C26_Witness ==
    \E r \in Slots :
        /\ GetSucceeded(r) /\ req[r].lostRace /\ req[r].createdAttempt
        /\ \E a \in AttemptsOf(req[r].deviceId, req[r].today) :
              \E q \in QuestionsOf(req[r].today) : a.daily_question_id = q.id

----------------------------------------------------------------------------
(* Properties of the app *)

\* getDeviceId of invocation t has returned, and none of its storage operations failed
Returned(t) ==
    /\ app.task[t].pc \in {"invoke", "await", "saveToCache", "done"}
    /\ app.task[t].deviceId # {}
    /\ ~app.task[t].storageFailed

\* C27: the getDeviceId calls of one installation whose storage operations succeed all
\* return one identifier, the persisted one, also when two of them run concurrently
\* on first launch.
C27_OneDeviceIdPerInstallation ==
    \A t1, t2 \in Tasks :
        (Returned(t1) /\ Returned(t2)) =>
            /\ app.task[t1].deviceId = app.task[t2].deviceId
            /\ app.task[t1].deviceId = app.storage.quizr_device_id

\* the step in which loadFromCache of invocation t hands a cache entry to fetchQuestion
ServedFromCache(t) ==
    /\ app.task[t].kind = "fetch" /\ app.task[t].pc = "loadFromCache"
    /\ app'.task[t].fromCache

\* C28: fetchQuestion serves a cache entry only when its date tag is the current UTC
\* date, and then makes no server request; every cache entry is tagged with the UTC day
\* for which the server provisioned its question, also across midnight UTC.
C28_CacheTaggedWithQuestionDay ==
    [][ /\ \A t \in Tasks :
             ServedFromCache(t) =>
                 /\ \E c \in app.storage.quizr_daily_question_cache :
                        c.date = clock /\ app'.rawQuestionData = {c.question}
                 /\ app'.task[t].pc = "done" /\ ~app'.task[t].called
                 /\ req' = req
        /\ \A c \in app'.storage.quizr_daily_question_cache :
             \E q \in daily_questions' : q.id = c.question.id /\ q.question_date = c.date
      ]_vars

\* the step in which markCompleted of invocation t goes on after the server answered
\* with a user_status
MarkAnswered(t) ==
    /\ app.task[t].kind = "mark" /\ app.task[t].pc = "await"
    /\ req[t].pc = "done" /\ req[t].response.status = 200
    /\ app'.task[t].pc # "await"

\* the step in which markCompleted of invocation t goes on after the server call failed
MarkFailed(t) ==
    /\ app.task[t].kind = "mark" /\ app.task[t].pc = "await"
    /\ req[t].pc = "done" /\ req[t].response.status # 200
    /\ app'.task[t].pc # "await"

\* markCompleted of invocation t has returned after the server answered with status s
MarkReturned(t, s) ==
    /\ app.task[t].kind = "mark" /\ app.task[t].pc = "done"
    /\ app.task[t].called /\ ~app.task[t].thrown
    /\ req[t].pc = "done" /\ req[t].response.status = 200
    /\ \E data \in req[t].response.body : data.user_status = s

CompletedStatus == [has_attempted |-> TRUE, is_completed |-> TRUE, can_attempt |-> FALSE]

\* C29: markCompleted makes no server call when userStatus is null or already completed;
\* after a call the server answers with a user_status, userStatus and the cache entry
\* both hold that status, so a fetchQuestion later on the same UTC day yields the
\* completed status; a failed call leaves userStatus and the cache unchanged and rethrows.
C29_MarkCompletedReachesCache ==
    [][ \A t \in Tasks :
          /\ (TaskFree(t) /\ app'.task[t].kind = "mark" /\ app'.task[t] # app.task[t]
                 /\ NothingToMark(app.userStatus))
                => (app'.task[t].pc = "done" /\ ~app'.task[t].called /\ req' = req)
          /\ MarkAnswered(t) =>
                \E data \in req[t].response.body : app'.userStatus = {data.user_status}
          /\ MarkFailed(t) =>
                /\ app'.task[t].thrown
                /\ app'.userStatus = app.userStatus
                /\ app'.storage = app.storage
          /\ (MarkReturned(t, CompletedStatus)' /\ ~MarkReturned(t, CompletedStatus))
                => \E c \in app'.storage.quizr_daily_question_cache :
                      c.userStatus = CompletedStatus
          /\ (ServedFromCache(t) /\ (\E k \in completedOk : k[2] = clock))
                => app'.userStatus = {CompletedStatus}
      ]_vars

----------------------------------------------------------------------------
(* Properties of QuestionGame *)

\* the step is a call of handleFlipPage, or of handleAnswerSelected, that changed something
FlipStep == game' # game /\ game'.lastEvent = "handleFlipPage"
SelectStep == game' # game /\ game'.lastEvent = "handleAnswerSelected"

\* the step calls onMarkCompleted
Invokes == Len(game'.pending) > Len(game.pending)

SelectAnAnswer == <<"Please select an answer before revealing.">>

\* the step changes nothing but the message, which becomes 'select an answer'
OnlyAsksForSelection ==
    game' = [game EXCEPT !.message = SelectAnAnswer, !.lastEvent = "handleFlipPage"]

\* onMarkCompleted is invoked only by a flip from the question side to the answer side
\* while is_completed is not true and an answer is selected
InvokedOnlyByAnsweredFlip ==
    Invokes =>
        /\ FlipStep
        /\ ~game.isPageFlipped /\ game'.isPageFlipped
        /\ ~IsCompleted(game.userStatus)
        /\ game.selectedAnswer # {}

\* a flip back never invokes; once completed no flip invokes and no selection changes
\* selectedAnswer
BackAndCompletedAreInert ==
    /\ (FlipStep /\ game.isPageFlipped) => (~Invokes /\ ~game'.isPageFlipped)
    /\ (FlipStep /\ IsCompleted(game.userStatus)) => ~Invokes
    /\ (SelectStep /\ IsCompleted(game.userStatus)) =>
           game'.selectedAnswer = game.selectedAnswer

\* C30, as stated: onMarkCompleted is invoked only by a flip from the question side
\* while is_completed is false and an answer is selected; every flip from the question
\* side with no selected answer leaves the page unflipped and only shows the 'select
\* an answer' message; a flip back never invokes it; once is_completed is true no flip
\* invokes it and no selection changes selectedAnswer.
C30_FlipWithoutAnswerNeverFlips ==
    [][ /\ InvokedOnlyByAnsweredFlip
        /\ (FlipStep /\ ~game.isPageFlipped /\ game.selectedAnswer = {})
              => OnlyAsksForSelection
        /\ BackAndCompletedAreInert
      ]_vars

\* C30, amended: as above, but a flip from the question side with no selected answer
\* leaves the page unflipped and only shows the message while is_completed is not
\* true; with is_completed true it flips to the answer side and invokes nothing.
C30_OnlyAnsweredFlipInvokes ==
    [][ /\ InvokedOnlyByAnsweredFlip
        /\ (FlipStep /\ ~game.isPageFlipped /\ game.selectedAnswer = {})
              => IF IsCompleted(game.userStatus)
                 THEN game'.isPageFlipped /\ ~Invokes
                 ELSE OnlyAsksForSelection
        /\ BackAndCompletedAreInert
      ]_vars

\* a flip with a selected answer has invoked onMarkCompleted, after an earlier flip
\* without one was refused
C30_Witness ==
    /\ game.lastEvent = "handleFlipPage"
    /\ game.isPageFlipped /\ Len(game.pending) = 1
    /\ game.selectedAnswer # {} /\ ~IsCompleted(game.userStatus)
    /\ game.message = SelectAnAnswer

\* the client identifiers with a record in store st
KeysOf(st) == {st[i].clientId : i \in 1..Len(st)}

\* C20: a call of isRateLimited runs the cleanup only when now - lastCleanup >=
\* cleanupIntervalMs, and then sets lastCleanup to now; the cleanup takes away exactly
\* the records with now > resetTime + windowMs (the caller's own is created anew),
\* never one whose window is still active, and a caller that is at its limit inside
\* its window is rejected whether or not the cleanup ran.
C20_CleanupOnlyWhenDueAndExpired ==
    [][ (now' = now) =>
          LET c == lastCall'.clientId
              due == now - lastCleanup >= CleanupIntervalMs
              stale == {store[i].clientId :
                          i \in {j \in 1..Len(store) : now > store[j].resetTime + WindowMs}}
          IN  /\ lastCleanup' = IF due THEN now ELSE lastCleanup
              /\ KeysOf(store) \ KeysOf(store') = IF due THEN stale \ {c} ELSE {}
              /\ \A i \in 1..Len(store) :
                    now <= store[i].resetTime => store[i].clientId \in KeysOf(store')
              /\ (\E rec \in StoreGet(store, c) :
                       now <= rec.resetTime /\ rec.count >= maxRequests) =>
                    /\ lastCall'.result
                    /\ \A rec \in StoreGet(store', c) : rec.count >= maxRequests ]_vars

\* the cleanup has run in the last call and has taken a record away
C20_Witness ==
    /\ now > 0
    /\ lastCleanup = now
    /\ lastCall.clientId # 0
    /\ Len(store) < lastCall.seen

\* the store as the eviction test of a call at time now finds it: after the cleanup,
\* if the cleanup is due
AfterCleanup ==
    IF now - lastCleanup >= CleanupIntervalMs
    THEN SelectSeq(store, LAMBDA e : ~(now > e.resetTime + WindowMs))
    ELSE store

\* C19: when a call of isRateLimited finds no record of its client and at least
\* maxStoreSize entries in the store, exactly floor(size * 0.25) entries leave the
\* store before the insert, none of them accessed later than an entry that stays;
\* when the client has a record, expired or not, no entry leaves the store.
C19_EvictOldestQuarter ==
    [][ (now' = now) =>
          LET c == lastCall'.clientId
              found == AfterCleanup
              evicted == {found[i] : i \in {j \in 1..Len(found) :
                                              found[j].clientId \notin KeysOf(store')}}
              kept == {found[i] : i \in {j \in 1..Len(found) :
                                           found[j].clientId \in KeysOf(store') \ {c}}}
          IN  IF c \notin KeysOf(found) /\ Len(found) >= maxStoreSize
              THEN /\ Cardinality(evicted) = Len(found) \div 4
                   /\ \A e \in evicted, k \in kept : e.lastAccess <= k.lastAccess
                   /\ Len(store') = Len(found) - (Len(found) \div 4) + 1
              ELSE evicted = {} ]_vars

\* the fifth client has arrived at a full store before any cleanup: the second
\* client's record, accessed least recently, is gone, and the first client's, inserted
\* first but accessed since, has stayed
C19_Witness ==
    /\ lastCleanup = 0
    /\ lastCall.seen = 5
    /\ Len(store) = 4
    /\ 2 \notin KeysOf(store)
    /\ \E rec \in StoreGet(store, 1) : rec.lastAccess > 0

\* C24: no call of isRateLimited, of whatever client and also when it evicts, takes
\* away or resets the record of a client whose window is active and whose count has
\* reached maxRequests; so of the requests a client makes in [t, t + windowMs] after
\* its window opened at t, at most maxRequests are admitted.
C24_LimitedRecordSurvives ==
    [][ (now' = now) =>
          \A i \in 1..Len(store) :
              (now <= store[i].resetTime /\ store[i].count >= maxRequests) =>
                 \E rec \in StoreGet(store', store[i].clientId) :
                     rec.resetTime = store[i].resetTime /\ rec.count = store[i].count ]_vars

\* the records of store st
RecordsOf(st) == {st[i] : i \in 1..Len(st)}

\* C25: a call of isRateLimited that returns true leaves its client's record with
\* the same count and resetTime (only lastAccess changes), changes no other record and
\* leaves the membership of the store as it was.
C25_LimitedCallChangesOnlyLastAccess ==
    [][ (now' = now /\ lastCall'.result) =>
          LET c == lastCall'.clientId IN
          /\ StoreGet(store, c) # {}
          /\ \A rec \in StoreGet(store, c) :
                StoreGet(store', c) = {[rec EXCEPT !.lastAccess = now]}
          /\ KeysOf(store') = KeysOf(store)
          /\ \A rec \in RecordsOf(store) : rec.clientId # c => rec \in RecordsOf(store') ]_vars

\* C25 as amended: a call of isRateLimited that returns true leaves its client's
\* record with the same count and resetTime (only lastAccess changes) and changes no
\* other record; the only records that leave the store are those the periodic
\* cleanup removes when it is due (now > resetTime + windowMs), never the caller's,
\* and none enters.
C25_LimitedCallFrame ==
    [][ (now' = now /\ lastCall'.result) =>
          LET c == lastCall'.clientId
              due == now - lastCleanup >= CleanupIntervalMs
              stale == {rec.clientId : rec \in {x \in RecordsOf(store) :
                                                    now > x.resetTime + WindowMs}}
          IN  /\ StoreGet(store, c) # {}
              /\ \A rec \in StoreGet(store, c) :
                    StoreGet(store', c) = {[rec EXCEPT !.lastAccess = now]}
              /\ KeysOf(store') = KeysOf(store) \ (IF due THEN stale ELSE {})
              /\ c \notin stale
              /\ \A rec \in RecordsOf(store') : rec.clientId # c => rec \in RecordsOf(store) ]_vars

\* a client at its limit has called inside its window, that call ran the cleanup,
\* and the cleanup took every other record away
C25_Witness ==
    /\ lastCall.result
    /\ now > 0
    /\ lastCleanup = now
    /\ Len(store) = 1
    /\ lastCall.seen >= 2
    /\ \E rec \in StoreGet(store, lastCall.clientId) :
          rec.resetTime = now /\ rec.lastAccess = now /\ rec.count = maxRequests

----------------------------------------------------------------------------
(* Properties of sanitizeText *)

\* C17: sanitizeText is stable on its own output: applied to a text it returned, it
\* returns that text.
C17_SanitizeStable ==
    sanitizer.passes >= 2 => sanitizer.output = {sanitizer.text}

====
